---------------------------- MODULE Spec2Model ----------------------------
(***************************************************************************)
(* Retrieval core of the RAG chatbot: TextChunker, the embedding providers *)
(* (RobustEmbeddingFunction, EmbeddingGenerator), the two vector stores    *)
(* (ChromaVectorDB, FAISSVectorDB) and the VectorDatabase facade.          *)
(*                                                                         *)
(* Conventions                                                             *)
(*   - a text is a sequence of one-character strings; Python index i is    *)
(*     TLA+ index i+1;                                                     *)
(*   - a float vector is a record [blocks, rep, dim, d2], see below; d2 = 0 *)
(*     stands for the result of a division by a zero norm (NaN);           *)
(*   - a Python exception leaving a call is recorded in that call's pc or  *)
(*     outcome variable ("raised").                                        *)
(***************************************************************************)
EXTENDS Integers, Sequences, FiniteSets, TLC

VARIABLES
    \* ---- TextChunker.chunk_text, one invocation at a time ----
    text,           \* argument text
    source_url,     \* argument source_url
    title,          \* argument title
    chunk_size,     \* self.chunk_size
    chunk_overlap,  \* self.chunk_overlap
    hashseed,       \* the running process's string-hash seed (PYTHONHASHSEED)
    pc,             \* "call" | "loop" | "done" | "raised"
    start,          \* local start
    chunk_index,    \* local chunk_index
    chunks,         \* local chunks / the returned list once pc = "done"
    windows,        \* history: the <<start, end>> cut by each loop iteration
    clock,          \* datetime.now(), one tick per chunk created
    calls,          \* number of invocations made so far
    prev,           \* <<returned list>> of the previous invocation, <<>> if none
    \* ---- RobustEmbeddingFunction and EmbeddingGenerator ----
    avail,          \* which provider initialisations succeed in this environment
    model_type,     \* RobustEmbeddingFunction.model_type
    fitted,         \* hasattr(self.model, 'vocabulary_') of the TF-IDF model
    vocabulary,     \* the fitted vocabulary_, sorted (empty while not fitted)
    emb_out,        \* outcome of the last RobustEmbeddingFunction call
    \* ---- VectorDatabase and its backends ----
    db_type,        \* VectorDatabase.db_type
    collection,     \* ChromaVectorDB.collection: the stored entries, in order
    faiss_index,    \* FAISSVectorDB.index: the stored vectors, by position
    documents,      \* FAISSVectorDB.documents
    vdb_out,        \* outcome of the last VectorDatabase or backend call
    index_file,     \* data/embeddings/faiss_index.bin: [state, data]
    metadata_file,  \* data/embeddings/faiss_metadata.pkl: [state, data]
    \* ---- ChatBot / OllamaChatBot ----
    bot,            \* which class the instance is: "openai" (ChatBot) or "ollama"
    conversation_history,   \* self.conversation_history
    full_turns,     \* history: every turn appended since the last clear
    successes,      \* history: calls returned without error since the last clear
    chat_out,       \* outcome of the last generate_response call
    \* ---- ChatBot.trim_context ----
    context,        \* argument context
    max_tokens,     \* argument max_tokens
    trim_out,       \* <<>> before the call, <<returned string>> after it
    \* ---- two threads on one FAISSVectorDB ----
    adder,          \* the thread in add_documents: [pc, chunks, i, embeddings]
    searcher,       \* the thread in search: [pc, q, k, hits]
    \* ---- the API server's requests on the shared ChatBot ----
    requests,       \* per request: [pc, question, answer, slice]
    \* ---- WebScraper ----
    scraped_pages,  \* self.scraped_pages
    scrape_out      \* outcome of the last scrape_website call

chunkVars == <<text, source_url, title, chunk_size, chunk_overlap, hashseed, pc,
               start, chunk_index, chunks, windows, clock, calls, prev>>

embVars == <<avail, model_type, fitted, vocabulary, emb_out>>

vdbVars == <<db_type, collection, faiss_index, documents, vdb_out>>

diskVars == <<index_file, metadata_file>>

chatVars == <<bot, conversation_history, full_turns, successes, chat_out>>

trimVars == <<context, max_tokens, trim_out>>

threadVars == <<adder, searcher>>

requestVars == <<requests>>

scrapeVars == <<scraped_pages, scrape_out>>

procVars == <<threadVars, requestVars, scrapeVars>>

vars == <<chunkVars, embVars, vdbVars, diskVars, chatVars, trimVars, procVars>>

---------------------------------------------------------------------------
(* Bounds of the model *)

MaxTextLen == 8
MaxSeps == 2
MaxChunk == 6
MaxOverlap == 5
MaxIter == 6
MaxCalls == 2
MaxBatch == 2
MaxPages == 2
MaxDocs == 3
MaxK == 2
MaxExchanges == 11
MaxResults == 1
MaxStored == 2
MaxMany == 21
MaxPairs == 4
MaxRequests == 2
MaxPagesArg == 3
MaxScraped == 2
MaxContext == 5
MaxBudget == 5

(* Program constants *)

CHUNK_SIZE == 1000
CHUNK_OVERLAP == 200
MINILM_DIM == 384
OPENAI_DIM == 1536
HASH_BLOCKS == 24
HASH_REPEAT == 16
HISTORY_CAP == 20
RECENT_TURNS == 6
MAX_PAGES_PER_SITE == 100

---------------------------------------------------------------------------
(* Python primitives *)

Min(a, b) == IF a <= b THEN a ELSE b
Max(a, b) == IF a >= b THEN a ELSE b

\* s[a:b] for a sequence s, with Python's negative offsets and clamping.
PySlice(s, a, b) ==
    LET n  == Len(s)
        lo == IF a < 0 THEN Max(a + n, 0) ELSE Min(a, n)
        hi == IF b < 0 THEN Max(b + n, 0) ELSE Min(b, n)
    IN  IF lo < hi THEN SubSeq(s, lo + 1, hi) ELSE <<>>

\* s[i] is defined (no IndexError) iff -len(s) <= i < len(s).
PyIndexOk(s, i) == -Len(s) <= i /\ i < Len(s)
PyIndex(s, i) == IF i < 0 THEN s[i + Len(s) + 1] ELSE s[i + 1]

Whitespace == {" ", "\n", "\t"}
\* the boundary test with the punctuation left out
SeparatorsBlank == Whitespace
\* the literal ' \n\t.!?;' of the boundary test
Separators == {" ", "\n", "\t", ".", "!", "?", ";"}

RECURSIVE LStrip(_)
LStrip(s) == IF s # <<>> /\ Head(s) \in Whitespace THEN LStrip(Tail(s)) ELSE s

RECURSIVE RStrip(_)
RStrip(s) ==
    IF s # <<>> /\ s[Len(s)] \in Whitespace THEN RStrip(SubSeq(s, 1, Len(s) - 1)) ELSE s

\* str.strip()
Strip(s) == RStrip(LStrip(s))

\* hash(str) of CPython: keyed by the per-process seed, except hash("") = 0.
Urls == {"", "https://a.com"}
HashSeeds == {0, 1}
UrlCode(u) == CASE u = "" -> 0 [] u = "https://a.com" -> 7 [] OTHER -> 11
HashStr(seed, u) == IF u = "" THEN 0 ELSE (UrlCode(u) * 31 + seed * 1000003) % 65536

\* f"{hash(source_url)}_{chunk_index}"
ChunkId(seed, u, idx) == <<HashStr(seed, u), idx>>

DocumentChunk(seed, content, u, t, idx, now) ==
    [id |-> ChunkId(seed, u, idx), content |-> content, source_url |-> u,
     title |-> t, chunk_index |-> idx, created_at |-> now]

---------------------------------------------------------------------------
(* TextChunker.chunk_text *)

\* end > start + self.chunk_size * 0.8
AboveFloor(e, s, cs) == 5 * e > 5 * s + 4 * cs

\* The inner while loop (lines 115-116) stops at x when its condition is false
\* there, or when text[x] raises (see ScanRaises).
ScanStops(t, s, cs, x) ==
    ~(AboveFloor(x, s, cs) /\ PyIndexOk(t, x) /\ PyIndex(t, x) \notin Separators)

\* The value of end where the scan, started at e and stepping down by one, stops:
\* the first x downwards from e with ScanStops (the floor s + 0.8 cs stops it).
ScanBack(t, s, cs, e) ==
    LET floor == Min(e, s + (4 * cs) \div 5)
    IN  CHOOSE x \in floor..e :
            ScanStops(t, s, cs, x) /\ \A y \in (x + 1)..e : ~ScanStops(t, s, cs, y)

\* text[end] raised IndexError where the scan stopped
ScanRaises(t, s, cs) ==
    LET e == ScanBack(t, s, cs, s + cs)
    IN  s + cs < Len(t) /\ AboveFloor(e, s, cs) /\ ~PyIndexOk(t, e)

WindowEndLong(t, s, cs) == s + cs + 1

\* lines 111-118: the end of the window that starts at s
WindowEnd(t, s, cs) ==
    IF s + cs < Len(t)
    THEN LET e == ScanBack(t, s, cs, s + cs)
         IN  IF ~AboveFloor(e, s, cs) THEN s + cs ELSE e
    ELSE s + cs

\* line 133: start = end - self.chunk_overlap
NextStartGap(e, ov) == e - ov + 1
NextStart(e, ov) == e - ov

\* One iteration of the outer while loop (lines 111-133) on the locals
\* st = [start, chunk_index, chunks, windows, clock], text[end] not raising.
LoopStep(t, u, ti, cs, ov, seed, st) ==
    LET e       == WindowEnd(t, st.start, cs)
        content == Strip(PySlice(t, st.start, e))
        keep    == content # <<>>
    IN  [start       |-> NextStart(e, ov),
         chunk_index |-> IF keep THEN st.chunk_index + 1 ELSE st.chunk_index,
         chunks      |-> IF keep
                         THEN Append(st.chunks,
                                     DocumentChunk(seed, content, u, ti,
                                                   st.chunk_index, st.clock))
                         ELSE st.chunks,
         windows     |-> Append(st.windows, <<st.start, e>>),
         clock       |-> IF keep THEN st.clock + 1 ELSE st.clock]

\* lines 96-104: the single-chunk branch
SingleChunk(t, u, ti, seed, now) == <<DocumentChunk(seed, t, u, ti, 0, now)>>

Locals == [start |-> start, chunk_index |-> chunk_index, chunks |-> chunks,
           windows |-> windows, clock |-> clock]

\* lines 96-108: entry of chunk_text
ChunkEnter ==
    /\ pc = "call"
    /\ IF Len(text) <= chunk_size
       THEN /\ chunks' = SingleChunk(text, source_url, title, hashseed, clock)
            /\ clock' = clock + 1
            /\ pc' = "done"
       ELSE /\ chunks' = <<>>
            /\ clock' = clock
            /\ pc' = "loop"
    /\ start' = 0
    /\ chunk_index' = 0
    /\ windows' = <<>>
    /\ UNCHANGED <<text, source_url, title, chunk_size, chunk_overlap, hashseed,
                   calls, prev>>
    /\ UNCHANGED <<embVars, vdbVars, diskVars, chatVars, trimVars, procVars>>

\* lines 110-135: one iteration of the while loop
ChunkIter ==
    /\ pc = "loop"
    /\ Len(windows) < MaxIter
    /\ IF ScanRaises(text, start, chunk_size)
       THEN /\ pc' = "raised"
            /\ UNCHANGED <<start, chunk_index, chunks, windows, clock>>
       ELSE LET st == LoopStep(text, source_url, title, chunk_size, chunk_overlap,
                               hashseed, Locals)
            IN  /\ start' = st.start
                /\ chunk_index' = st.chunk_index
                /\ chunks' = st.chunks
                /\ windows' = st.windows
                /\ clock' = st.clock
                /\ pc' = IF st.start >= Len(text) THEN "done" ELSE "loop"
    /\ UNCHANGED <<text, source_url, title, chunk_size, chunk_overlap, hashseed,
                   calls, prev>>
    /\ UNCHANGED <<embVars, vdbVars, diskVars, chatVars, trimVars, procVars>>

\* The same call made again, in the same or in another process.
ChunkAgain ==
    /\ pc = "done"
    /\ calls < MaxCalls
    /\ prev' = <<chunks>>
    /\ hashseed' \in HashSeeds
    /\ calls' = calls + 1
    /\ pc' = "call"
    /\ start' = 0
    /\ chunk_index' = 0
    /\ chunks' = <<>>
    /\ windows' = <<>>
    /\ UNCHANGED <<text, source_url, title, chunk_size, chunk_overlap, clock>>
    /\ UNCHANGED <<embVars, vdbVars, diskVars, chatVars, trimVars, procVars>>

\* The embedding providers untouched: nothing constructed, nothing called.
NoOutcome == [op |-> "none", input |-> <<>>, threw |-> FALSE, raised |-> FALSE,
              vectors |-> <<>>]
EmbIdle ==
    /\ avail = [st_import |-> FALSE, st_load |-> FALSE, chroma_default |-> FALSE,
                sklearn |-> "missing"]
    /\ model_type = "none"
    /\ fitted = FALSE
    /\ vocabulary = <<>>
    /\ emb_out = NoOutcome

\* No VectorDatabase call made yet.
VdbNoOutcome ==
    [op |-> "none", raised |-> FALSE, chunks |-> <<>>, bad |-> {}, query |-> <<>>,
     k |-> 0, enc_fails |-> FALSE, query_fails |-> FALSE, results |-> <<>>,
     qvec |-> <<>>, saved |-> "", old_index |-> <<>>, old_documents |-> <<>>,
     after_save |-> FALSE, lists |-> <<>>, attempts |-> <<>>, whole_raised |-> FALSE]

\* No VectorDatabase constructed.
VdbIdle ==
    /\ db_type = "none"
    /\ collection = <<>>
    /\ faiss_index = <<>>
    /\ documents = <<>>
    /\ vdb_out = VdbNoOutcome

\* No index persisted.
DiskIdle ==
    /\ index_file = [state |-> "missing", data |-> <<>>]
    /\ metadata_file = [state |-> "missing", data |-> <<>>]

\* No chatbot constructed, no generate_response call made.
ChatNoOutcome ==
    [op |-> "none", error |-> FALSE, before |-> <<>>, question |-> "", answer |-> "",
     results |-> 0, sources_used |-> 0, rendered |-> <<>>]
ChatIdle ==
    /\ bot = "none"
    /\ conversation_history = <<>>
    /\ full_turns = <<>>
    /\ successes = 0
    /\ chat_out = ChatNoOutcome

\* No trim_context call.
TrimIdle ==
    /\ context = <<>>
    /\ max_tokens = 0
    /\ trim_out = <<>>

\* No thread in FAISSVectorDB, no request in the API server, no WebScraper.
NoThread == [pc |-> "idle"]
NoScrape == [op |-> "none", start_url |-> "", max_pages |-> 0, returned |-> <<>>,
             before |-> <<>>, saved |-> <<>>]
ProcIdle ==
    /\ adder = NoThread
    /\ searcher = NoThread
    /\ requests = <<>>
    /\ scraped_pages = <<>>
    /\ scrape_out = NoScrape

\* Page texts: letters with at most MaxSeps blanks or full stops among them.
Alphabet == {"a", " ", "."}
Texts ==
    {t \in UNION {[1..n -> Alphabet] : n \in 0..MaxTextLen} :
        Cardinality({i \in 1..Len(t) : t[i] # "a"}) <= MaxSeps}

ChunkInitLocals ==
    /\ title = "A"
    /\ hashseed \in HashSeeds
    /\ pc = "call"
    /\ start = 0
    /\ chunk_index = 0
    /\ chunks = <<>>
    /\ windows = <<>>
    /\ clock = 0
    /\ calls = 1
    /\ prev = <<>>

InitChunk ==
    /\ text \in Texts
    /\ source_url \in Urls
    /\ chunk_size \in 1..MaxChunk
    /\ chunk_overlap \in 0..MaxOverlap
    /\ ChunkInitLocals
    /\ EmbIdle
    /\ VdbIdle
    /\ DiskIdle
    /\ ChatIdle
    /\ TrimIdle
    /\ ProcIdle

NextChunk == ChunkEnter \/ ChunkIter \/ ChunkAgain

SpecChunk == InitChunk /\ [][NextChunk]_vars

\* The end-to-end scenario: a page of CHUNK_SIZE * 1.5 characters chunked with the
\* configured CHUNK_SIZE and CHUNK_OVERLAP; the page is letters with at most one
\* blank or full stop, at a multiple of ScenarioStride.
ScenarioStride == 50
ScenarioLen == CHUNK_SIZE + CHUNK_SIZE \div 2
ScenarioTexts ==
    {[i \in 1..ScenarioLen |-> "a"]} \cup
    {[i \in 1..ScenarioLen |-> IF i = p + 1 THEN c ELSE "a"] :
        p \in {q \in 0..(ScenarioLen - 1) : q % ScenarioStride = 0}, c \in {" ", "."}}

InitScenario ==
    /\ text \in ScenarioTexts
    /\ source_url \in Urls
    /\ chunk_size = CHUNK_SIZE
    /\ chunk_overlap = CHUNK_OVERLAP
    /\ ChunkInitLocals
    /\ EmbIdle
    /\ VdbIdle
    /\ DiskIdle
    /\ ChatIdle
    /\ TrimIdle
    /\ ProcIdle

SpecScenario == InitScenario /\ [][NextChunk]_vars

---------------------------------------------------------------------------
(* Float vectors.  A vector is a record [blocks, rep, dim, d2] of dimension   *)
(* dim: its k-th component (k = 1..dim) is Component(v, k) / sqrt(d2), each  *)
(* entry of blocks standing for rep equal consecutive components and the     *)
(* components after the last block being 0.  d2 = 0 is a vector of NaN.      *)

ZerosVec(n) == [blocks |-> <<>>, rep |-> 1, dim |-> n, d2 |-> 1]
DenseVec(c, n) == [blocks |-> c, rep |-> 1, dim |-> n, d2 |-> 1]

Component(v, k) ==
    IF (k - 1) \div v.rep + 1 <= Len(v.blocks)
    THEN v.blocks[(k - 1) \div v.rep + 1] ELSE 0

\* how many of the components of block j lie within the dimension
BlockSpan(v, j) == Max(0, Min(j * v.rep, v.dim) - (j - 1) * v.rep)

\* the sum of the squared numerators of v's components
RECURSIVE SumSqUpTo(_, _)
SumSqUpTo(v, j) ==
    IF j = 0 THEN 0
    ELSE SumSqUpTo(v, j - 1) + v.blocks[j] * v.blocks[j] * BlockSpan(v, j)

SumSq(v) == SumSqUpTo(v, Len(v.blocks))

\* np.linalg.norm(v) > 0
NormPositive(v) == v.d2 > 0 /\ SumSq(v) > 0

\* v / np.linalg.norm(v): a zero norm makes every component 0/0 = NaN (d2 = 0)
DivideByNorm(v) == [v EXCEPT !.d2 = SumSq(v)]

\* v[:n]
Truncate(v, n) == [v EXCEPT !.dim = Min(v.dim, n)]

IsNaN(v) == v.d2 = 0
IsZeroVec(v) == v.d2 > 0 /\ SumSq(v) = 0
IsUnitVec(v) == v.d2 > 0 /\ SumSq(v) = v.d2
Dim(v) == v.dim

---------------------------------------------------------------------------
(* RobustEmbeddingFunction *)

\* Texts to embed: sequences of lower-case words; Surrogate is a lone UTF-16
\* surrogate (as json.loads('"\\ud800"') yields), no word and not encodable.
Surrogate == "<lone surrogate>"
EmbTexts == {<<"python">>, <<"web", "python">>, <<"the">>, <<Surrogate>>}
StopWords == {"the"}
WordRank(w) ==
    CASE w = "the" -> 1 [] w = "python" -> 2 [] w = "web" -> 3
      [] w = "a" -> 5 [] w = "." -> 6 [] w = " " -> 7 [] OTHER -> 4

\* text.encode() raises UnicodeEncodeError
EncodeRaises(t) == \E i \in 1..Len(t) : t[i] = Surrogate

\* hashlib.md5(text.encode()).hexdigest() on the texts in play, 32 hex digits: a
\* mixed digest, one that is zero but for its first byte, and one whose first 15
\* bytes are zero.
HexLen == 32
DigestMixed == [i \in 1..HexLen |-> (7 * i + 3) % 16]
DigestFirstByte == [i \in 1..HexLen |-> IF i <= 2 THEN 15 ELSE 0]
DigestLastByte == [i \in 1..HexLen |-> IF i > HexLen - 2 THEN 15 ELSE 0]
Md5(t) ==
    CASE t = <<"python">> -> DigestMixed
      [] t = <<"web", "python">> -> DigestFirstByte
      [] OTHER -> DigestLastByte

\* the output of the MiniLM encoders (sentence-transformers, chromadb default) on
\* one text: some non-zero vector of dimension 384 that depends on the text
LibEncode(t) == DenseVec(<<1>> \o [i \in 1..Len(t) |-> WordRank(t[i])], MINILM_DIM)

\* lines 71-111: _initialize_model and _initialize_tfidf_fallback. The first two
\* providers are tried under `except Exception`; the import of scikit-learn
\* (av.sklearn) succeeds ("ok"), raises ImportError ("missing"), which is caught,
\* or raises another exception ("broken"), which is not.
InitializeModel(av) ==
    IF av.st_import /\ av.st_load THEN "sentence-transformers"
    ELSE IF av.chroma_default THEN "chromadb-default"
    ELSE IF av.sklearn = "ok" THEN "tfidf"
    ELSE "none"

\* lines 97-111: the exception of a broken scikit-learn leaves
\* _initialize_tfidf_fallback, _initialize_model and __init__
InitializeRaises(av) ==
    /\ ~(av.st_import /\ av.st_load)
    /\ ~av.chroma_default
    /\ av.sklearn = "broken"

\* RobustEmbeddingFunction() returned an instance
Constructed == ~InitializeRaises(avail)

\* line 152-154: text_hash[(i*2) % len : (i*2+2) % len], text_hash[0:2] if short
HashChunk(h, i) ==
    LET ch == PySlice(h, (i * 2) % Len(h), (i * 2 + 2) % Len(h))
    IN  IF Len(ch) < 2 THEN PySlice(h, 0, 2) ELSE ch

\* int(chunk, 16)
IntHex(ch) == 16 * ch[1] + ch[2]

\* lines 150-158: the list `vector` before normalisation, val = int / 255.0
HashVector(h) ==
    [blocks |-> [i \in 1..HASH_BLOCKS |-> IntHex(HashChunk(h, i - 1))],
     rep |-> HASH_REPEAT, dim |-> HASH_BLOCKS * HASH_REPEAT, d2 |-> 255 * 255]

\* lines 160-165 for one text: vector.tolist() raises AttributeError when the
\* norm is 0, `vector` then still being a list
HashEmbedRaises(h) == ~NormPositive(HashVector(h))

HashEmbedOne(h) == Truncate(DivideByNorm(HashVector(h)), MINILM_DIM)

\* lines 140-167: _generate_deterministic_embeddings
GenerateDeterministic(texts) ==
    IF \E i \in 1..Len(texts) : EncodeRaises(texts[i]) \/ HashEmbedRaises(Md5(texts[i]))
    THEN [raised |-> TRUE, vectors |-> <<>>]
    ELSE [raised |-> FALSE,
          vectors |-> [i \in 1..Len(texts) |-> HashEmbedOne(Md5(texts[i]))]]

\* TfidfVectorizer(stop_words='english', ngram_range=(1, 2)): the terms of one
\* text, a term being a word or two adjacent words, stop words (and what the
\* token pattern does not match) removed first
RECURSIVE DropStopWords(_)
DropStopWords(t) ==
    IF t = <<>> THEN <<>>
    ELSE IF Head(t) \in StopWords \cup {Surrogate} THEN DropStopWords(Tail(t))
    ELSE <<Head(t)>> \o DropStopWords(Tail(t))

TermsOf(t) ==
    LET w == DropStopWords(t)
    IN  {<<w[i]>> : i \in 1..Len(w)} \cup {<<w[i], w[i + 1]>> : i \in 1..(Len(w) - 1)}

TermCount(t, term) ==
    LET w == DropStopWords(t)
    IN  Cardinality({i \in 1..(Len(w) - Len(term) + 1) :
                        SubSeq(w, i, i + Len(term) - 1) = term})

TermKey(term) == 10 * WordRank(term[1]) + (IF Len(term) > 1 THEN WordRank(term[2]) ELSE 0)

\* fit(): the vocabulary of the corpus, sorted; max_features = 384 cuts nothing
\* for the texts in play
FitVocabulary(input) ==
    LET terms == UNION {TermsOf(input[i]) : i \in 1..Len(input)}
    IN  SortSeq(CHOOSE q \in [1..Cardinality(terms) -> terms] :
                    \A a \in terms : \E i \in 1..Cardinality(terms) : q[i] = a,
                LAMBDA a, b : TermKey(a) < TermKey(b))

\* fit() raises ValueError("empty vocabulary") when no term is left
FitRaises(input) == \A i \in 1..Len(input) : TermsOf(input[i]) = {}

\* transform(): one L2-normalised row per text over the fitted vocabulary (term
\* counts; the positive idf factors are left out); a row without any known term
\* stays all zero
TfidfRow(t, vocab) ==
    LET row == DenseVec([j \in 1..Len(vocab) |-> TermCount(t, vocab[j])], Len(vocab))
    IN  IF SumSq(row) = 0 THEN row ELSE DivideByNorm(row)

Transform(input, vocab) == [i \in 1..Len(input) |-> TfidfRow(input[i], vocab)]

\* lines 125-127: the vocabulary after the fit test of a call: fitted on the
\* input unless the vectorizer has a vocabulary_ already; CallVocabularyRefit
\* fits at every call
CallVocabularyRefit(fit, vocab, input) == FitVocabulary(input)
CallVocabulary(fit, vocab, input) == IF fit THEN vocab ELSE FitVocabulary(input)

\* lines 113-138: __call__; fails says that the library provider throws.
\* Result: [threw, raised, vectors, fitted, vocabulary], threw saying that the
\* try block raised (line 136), raised that the call itself raised.
Call(mt, fit, vocab, input, fails) ==
    LET fallback == GenerateDeterministic(input)
        hashed(threw) == [threw |-> threw, raised |-> fallback.raised,
                          vectors |-> fallback.vectors,
                          fitted |-> fit, vocabulary |-> vocab]
    IN  IF mt \in {"sentence-transformers", "chromadb-default"}
        THEN IF fails THEN hashed(TRUE)
             ELSE [threw |-> FALSE, raised |-> FALSE,
                   vectors |-> [i \in 1..Len(input) |-> LibEncode(input[i])],
                   fitted |-> fit, vocabulary |-> vocab]
        ELSE IF mt = "tfidf"
        THEN IF ~fit /\ FitRaises(input) THEN hashed(TRUE)
             ELSE LET v == CallVocabulary(fit, vocab, input)
                  IN  [threw |-> FALSE, raised |-> FALSE,
                       vectors |-> Transform(input, v),
                       fitted |-> TRUE, vocabulary |-> v]
        ELSE hashed(fallback.raised)

Batches == UNION {[1..n -> EmbTexts] : n \in 0..MaxBatch}
MayFail(mt) == IF mt \in {"sentence-transformers", "chromadb-default"}
               THEN BOOLEAN ELSE {FALSE}

\* __call__(input) / embed_documents(texts)
EmbCall ==
    /\ Constructed
    /\ \E input \in Batches, fails \in MayFail(model_type) :
        LET r == Call(model_type, fitted, vocabulary, input, fails)
        IN  /\ emb_out' = [op |-> "call", input |-> input, threw |-> r.threw,
                           raised |-> r.raised, vectors |-> r.vectors]
            /\ fitted' = r.fitted
            /\ vocabulary' = r.vocabulary
            /\ UNCHANGED <<avail, model_type>>
            /\ UNCHANGED <<chunkVars, vdbVars, diskVars, chatVars, trimVars, procVars>>

\* lines 45-65: embed_query(query); q = <<>> stands for no query at all (None),
\* <<t>> for the query text t
EmbedQuery ==
    /\ Constructed
    /\ \E q \in {<<>>} \cup {<<t>> : t \in EmbTexts}, fails \in MayFail(model_type) :
        /\ IF q = <<>>
           THEN /\ emb_out' = [op |-> "query", input |-> q, threw |-> FALSE,
                               raised |-> FALSE, vectors |-> <<ZerosVec(MINILM_DIM)>>]
                /\ UNCHANGED <<fitted, vocabulary>>
           ELSE LET r == Call(model_type, fitted, vocabulary, q, fails)
                IN  /\ emb_out' = [op |-> "query", input |-> q, threw |-> r.threw,
                                   raised |-> r.raised, vectors |-> r.vectors]
                    /\ fitted' = r.fitted
                    /\ vocabulary' = r.vocabulary
        /\ UNCHANGED <<avail, model_type>>
        /\ UNCHANGED <<chunkVars, vdbVars, diskVars, chatVars, trimVars, procVars>>

---------------------------------------------------------------------------
(* EmbeddingGenerator *)

\* lines 177-193: one OpenAI call per text, zeros(1536) for a text whose call
\* fails; failed[i] says that the call for text i throws
OpenAIEncode(t) == DenseVec(<<1>> \o [i \in 1..Len(t) |-> WordRank(t[i])], OPENAI_DIM)

GenerateOpenAI(texts, failed) ==
    [i \in 1..Len(texts) |->
        IF failed[i] THEN ZerosVec(OPENAI_DIM) ELSE OpenAIEncode(texts[i])]

\* lines 195-202: one encode call for the batch, zeros(384) per text if it throws
GenerateSentenceTransformer(texts, fails) ==
    IF fails THEN [i \in 1..Len(texts) |-> ZerosVec(MINILM_DIM)]
    ELSE [i \in 1..Len(texts) |-> LibEncode(texts[i])]

\* lines 162-175: generate_embeddings
GenerateEmbeddings(gt, texts, failed) ==
    IF gt = "openai" THEN GenerateOpenAI(texts, failed)
    ELSE GenerateSentenceTransformer(texts, \E i \in 1..Len(failed) : failed[i])

\* EmbeddingGenerator(gt).generate_embeddings(texts); failed[i] says that the
\* provider throws on text i
EmbGenerate ==
    \E gt \in {"openai", "sentence-transformers"}, input \in Batches :
        \E failed \in [1..Len(input) -> BOOLEAN] :
            /\ emb_out' = [op |-> "generate", input |-> input,
                           threw |-> \E i \in 1..Len(input) : failed[i],
                           raised |-> FALSE,
                           vectors |-> GenerateEmbeddings(gt, input, failed)]
            /\ UNCHANGED <<avail, model_type, fitted, vocabulary>>
            /\ UNCHANGED <<chunkVars, vdbVars, diskVars, chatVars, trimVars, procVars>>

ChunkIdle ==
    /\ text = <<>>
    /\ source_url = ""
    /\ title = "A"
    /\ chunk_size = CHUNK_SIZE
    /\ chunk_overlap = CHUNK_OVERLAP
    /\ hashseed = 0
    /\ pc = "idle"
    /\ start = 0
    /\ chunk_index = 0
    /\ chunks = <<>>
    /\ windows = <<>>
    /\ clock = 0
    /\ calls = 0
    /\ prev = <<>>

\* After RobustEmbeddingFunction()
InitEmbed ==
    /\ avail \in [st_import : BOOLEAN, st_load : BOOLEAN, chroma_default : BOOLEAN,
                   sklearn : {"ok", "missing", "broken"}]
    /\ model_type = InitializeModel(avail)
    /\ fitted = FALSE
    /\ vocabulary = <<>>
    /\ emb_out = [NoOutcome EXCEPT !.op = "init", !.raised = InitializeRaises(avail)]
    /\ ChunkIdle
    /\ VdbIdle
    /\ DiskIdle
    /\ ChatIdle
    /\ TrimIdle
    /\ ProcIdle

NextEmbed == EmbCall \/ EmbedQuery \/ EmbGenerate

SpecEmbed == InitEmbed /\ [][NextEmbed]_vars

---------------------------------------------------------------------------
(* Similarity scores *)

\* The numerator of the inner product of two vectors of equal block width
RECURSIVE DotUpTo(_, _, _)
DotUpTo(a, b, j) ==
    IF j = 0 THEN 0
    ELSE DotUpTo(a, b, j - 1) + a.blocks[j] * b.blocks[j] * BlockSpan(a, j)

Dot(a, b) == DotUpTo(a, b, Min(Len(a.blocks), Len(b.blocks)))

\* A score is num / sqrt(den2), num >= 0; den2 = 0 makes it NaN.
InnerProduct(a, b) == [num |-> Dot(a, b), den2 |-> a.d2 * b.d2]
Cosine(a, b) == [num |-> Dot(a, b), den2 |-> SumSq(a) * SumSq(b)]
ScoreIsNaN(s) == s.den2 = 0
Higher(s, t) == s.num * s.num * t.den2 > t.num * t.num * s.den2

\* The score FAISS reports for a result slot it could not fill (the lowest float)
Lowest == [num |-> -1, den2 |-> 1]

\* The k best positions of a list of scores, best first, ties by position; a NaN
\* score compares false with everything and is never selected; slots left
\* unfilled hold -1.
RankOf(scores, i) ==
    Cardinality({j \in 1..Len(scores) :
        /\ ~ScoreIsNaN(scores[j])
        /\ \/ Higher(scores[j], scores[i])
           \/ (~Higher(scores[i], scores[j]) /\ j < i)})

TopK(scores, k) ==
    LET valid == {i \in 1..Len(scores) : ~ScoreIsNaN(scores[i])}
    IN  [r \in 1..k |->
            IF r <= Cardinality(valid)
            THEN (CHOOSE i \in valid : RankOf(scores, i) = r - 1) - 1
            ELSE -1]

---------------------------------------------------------------------------
(* ChromaVectorDB *)

\* The metadata dict of a chunk
Metadata(c) == [source_url |-> c.source_url, title |-> c.title,
                chunk_index |-> c.chunk_index, created_at |-> c.created_at]

HasDuplicateIds(chunks_) ==
    \E i, j \in 1..Len(chunks_) : i < j /\ chunks_[i].id = chunks_[j].id

\* collection.add(ids, documents, metadatas): one call for the whole batch, which
\* raises and stores nothing when the store refuses any of its entries (bad: the
\* positions refused) or when two ids of the batch are equal; the collection
\* embeds the documents itself (all-MiniLM-L6-v2).
CollectionAddRaises(chunks_, bad) == bad # {} \/ HasDuplicateIds(chunks_)

CollectionAdd(coll, chunks_) ==
    coll \o [i \in 1..Len(chunks_) |->
                [id |-> chunks_[i].id, document |-> chunks_[i].content,
                 metadata |-> Metadata(chunks_[i]),
                 embedding |-> LibEncode(chunks_[i].content)]]

\* lines 229-255: ChromaVectorDB.add_documents; the except branch re-raises
ChromaAddDocuments(coll, chunks_, bad) ==
    IF chunks_ = <<>> THEN [raised |-> FALSE, collection |-> coll]
    ELSE IF CollectionAddRaises(chunks_, bad)
    THEN [raised |-> TRUE, collection |-> coll]
    ELSE [raised |-> FALSE, collection |-> CollectionAdd(coll, chunks_)]

\* collection.query(query_texts=[query], n_results): the entries nearest to the
\* embedded query by cosine distance, nearest first, as the parallel lists
\* results['documents'][0], results['metadatas'][0], results['distances'][0]
CollectionQuery(coll, query, k) ==
    LET q      == LibEncode(query)
        scores == [i \in 1..Len(coll) |-> Cosine(coll[i].embedding, q)]
        hits   == TopK(scores, Min(k, Len(coll)))
    IN  [documents |-> [r \in 1..Len(hits) |-> coll[hits[r] + 1].document],
         metadatas |-> [r \in 1..Len(hits) |-> coll[hits[r] + 1].metadata],
         distances |-> [r \in 1..Len(hits) |->
                          [kind |-> "cosine distance", of |-> scores[hits[r] + 1]]]]

\* lines 274-283: the loop over results['documents'][0]; FormatResultsShort
\* leaves the first document out
FormatResultsShort(raw) ==
    [i \in 1..(Len(raw.documents) - 1) |->
        [content |-> raw.documents[i + 1], metadata |-> raw.metadatas[i + 1],
         distance |-> raw.distances[i + 1]]]
FormatResults(raw) ==
    [i \in 1..Len(raw.documents) |->
        [content |-> raw.documents[i], metadata |-> raw.metadatas[i],
         distance |-> raw.distances[i]]]

\* lines 257-287: ChromaVectorDB.search; query_fails says that the query
\* throws; the whole body is inside the try
ChromaSearch(coll, query, k, query_fails) ==
    IF query_fails THEN <<>> ELSE FormatResults(CollectionQuery(coll, query, k))

---------------------------------------------------------------------------
(* FAISSVectorDB *)

\* chunk.embedding is None
NoEmbedding == [blocks |-> <<>>, rep |-> 0, dim |-> 0, d2 |-> 0]
HasEmbedding(c) == c.embedding # NoEmbedding

\* line 321: index.add(embeddings_array) of an index of dimension 384 (line 292)
\* raises when the rows are not all of that dimension
IndexAddRaises(kept) == \E i \in 1..Len(kept) : kept[i].embedding.dim # MINILM_DIM

\* lines 307-326: add_documents; the loop (lines 313-318) divides the embedding
\* of every chunk that has one by its norm and appends the chunk to documents;
\* then the rows are added to the index (line 321) and, when there are rows
\* and index.add did not raise, _save_index is called (saves)
FaissAddDocuments(index, docs, chunks_) ==
    LET kept == SelectSeq(chunks_, HasEmbedding)
    IN  IF IndexAddRaises(kept)
        THEN [index |-> index, documents |-> docs \o kept, raised |-> TRUE,
              saves |-> FALSE]
        ELSE [index |-> index \o [i \in 1..Len(kept) |->
                                     DivideByNorm(kept[i].embedding)],
              documents |-> docs \o kept, raised |-> FALSE, saves |-> kept # <<>>]

\* index.search(q, k) of IndexFlatIP: labels of the k highest inner products
IndexSearch(index, q, k) ==
    LET scores == [i \in 1..Len(index) |-> InnerProduct(index[i], q)]
        labels == TopK(scores, k)
    IN  [r \in 1..k |->
            [idx |-> labels[r],
             distance |-> IF labels[r] = -1 THEN Lowest ELSE scores[labels[r] + 1]]]

\* lines 348-362: the result loop; documents[idx] with Python's indexing
RECURSIVE FormatHits(_, _)
FormatHits(hits, docs) ==
    IF hits = <<>> THEN <<>>
    ELSE LET h == hits[Len(hits)]
             before == FormatHits(SubSeq(hits, 1, Len(hits) - 1), docs)
         IN  IF h.idx < Len(docs)
             THEN Append(before,
                         [content |-> PyIndex(docs, h.idx).content,
                          metadata |-> Metadata(PyIndex(docs, h.idx)),
                          distance |-> [kind |-> "inner product", of |-> h.distance]])
             ELSE before

\* lines 328-364: FAISSVectorDB.search; qvec is what is passed to index.search
FaissSearch(index, docs, query_embedding, k) ==
    IF Len(index) = 0
    THEN [raised |-> FALSE, results |-> <<>>, qvec |-> <<>>]
    ELSE LET q    == DivideByNorm(query_embedding)
             hits == IndexSearch(index, q, Min(k, Len(index)))
         IN  IF \E r \in 1..Len(hits) :
                    hits[r].idx < Len(docs) /\ ~PyIndexOk(docs, hits[r].idx)
             THEN [raised |-> TRUE, results |-> <<>>, qvec |-> <<q>>]
             ELSE [raised |-> FALSE, results |-> FormatHits(hits, docs), qvec |-> <<q>>]

---------------------------------------------------------------------------
(* VectorDatabase *)

\* The db_type values the constructor accepts (lines 403-408)
DbTypes == {"chroma", "chromadb", "faiss"}
ChromaTypes == {"chroma", "chromadb"}

\* chunk_text with its loop run to the end; with the configured size and overlap
\* every index of the scan is in range and start grows at each iteration
RECURSIVE ChunkLoop(_, _, _, _, _, _, _)
ChunkLoop(t, u, ti, cs, ov, seed, st) ==
    LET n == LoopStep(t, u, ti, cs, ov, seed, st)
    IN  IF n.start >= Len(t) THEN n ELSE ChunkLoop(t, u, ti, cs, ov, seed, n)

ChunkText(t, u, ti, cs, ov, seed, now) ==
    IF Len(t) <= cs
    THEN [chunks |-> SingleChunk(t, u, ti, seed, now), clock |-> now + 1]
    ELSE LET r == ChunkLoop(t, u, ti, cs, ov, seed,
                            [start |-> 0, chunk_index |-> 0, chunks |-> <<>>,
                             windows |-> <<>>, clock |-> now])
         IN  [chunks |-> r.chunks, clock |-> r.clock]

\* chunk.embedding = embedding
WithEmbedding(c, e) ==
    [id |-> c.id, content |-> c.content, source_url |-> c.source_url,
     title |-> c.title, chunk_index |-> c.chunk_index, created_at |-> c.created_at,
     embedding |-> e]

\* lines 418-435: the loop over the pages; enc[i] says that the encoder throws on
\* the texts of page i
RECURSIVE ChunkPages(_, _, _, _, _, _)
ChunkPages(pages, enc, cs, ov, seed, now) ==
    IF pages = <<>> THEN [chunks |-> <<>>, clock |-> now]
    ELSE LET n     == Len(pages)
             rest  == ChunkPages(SubSeq(pages, 1, n - 1), enc, cs, ov, seed, now)
             c     == ChunkText(pages[n].content, pages[n].url, pages[n].title,
                                cs, ov, seed, rest.clock)
             texts == [j \in 1..Len(c.chunks) |-> c.chunks[j].content]
             embs  == GenerateEmbeddings("sentence-transformers", texts,
                                         [j \in 1..Len(texts) |-> enc[n]])
         IN  [chunks |-> rest.chunks \o
                         [j \in 1..Len(c.chunks) |-> WithEmbedding(c.chunks[j], embs[j])],
              clock  |-> c.clock]

\* Scraped pages: two of one URL, one of another
Pages ==
    {[url |-> "https://a.com", title |-> "A", content |-> <<"a">>],
     [url |-> "https://a.com", title |-> "A", content |-> <<"a", ".">>],
     [url |-> "https://b.com", title |-> "B", content |-> <<"a", "a">>]}
PageLists == UNION {[1..n -> Pages] : n \in 0..MaxPages}
Queries == {<<"a">>, <<"a", "a">>}

\* lines 410-439: add_documents_from_scraped_data; bad is the set of positions of
\* all_chunks the Chroma store refuses
AddDocumentsFromScrapedData ==
    /\ db_type \in DbTypes
    /\ \E pages \in PageLists, enc \in [1..MaxPages -> BOOLEAN] :
        \E all \in {ChunkPages(pages, enc, chunk_size, chunk_overlap, hashseed, clock)} :
          /\ all.clock <= MaxDocs
          /\ clock' = all.clock
          /\ IF db_type \in ChromaTypes
             THEN \E bad \in SUBSET (1..Len(all.chunks)) :
                  \E r \in {ChromaAddDocuments(collection, all.chunks, bad)} :
                    /\ collection' = r.collection
                    /\ vdb_out' = [VdbNoOutcome EXCEPT !.op = "add",
                                      !.raised = r.raised,
                                      !.chunks = all.chunks, !.bad = bad]
                    /\ UNCHANGED <<faiss_index, documents>>
             ELSE \E r \in {FaissAddDocuments(faiss_index, documents, all.chunks)} :
                    /\ faiss_index' = r.index
                    /\ documents' = r.documents
                    /\ vdb_out' = [VdbNoOutcome EXCEPT !.op = "add",
                                      !.chunks = all.chunks]
                    /\ UNCHANGED collection
    /\ UNCHANGED <<text, source_url, title, chunk_size, chunk_overlap, hashseed, pc,
                   start, chunk_index, chunks, windows, calls, prev>>
    /\ UNCHANGED <<embVars, db_type, diskVars, chatVars, trimVars, procVars>>

\* What self.db.search returns for the query: the Chroma backend takes the query
\* text, the FAISS backend the query embedded by self.embedding_generator
BackendSearch(query, k, enc_fails, query_fails) ==
    IF db_type \in ChromaTypes
    THEN [raised |-> FALSE, qvec |-> <<>>,
          results |-> ChromaSearch(collection, query, k, query_fails)]
    ELSE FaissSearch(faiss_index, documents,
                     GenerateEmbeddings("sentence-transformers", <<query>>,
                                        <<enc_fails>>)[1], k)

\* lines 441-459: search_similar
SearchSimilar ==
    /\ db_type \in DbTypes
    /\ \E query \in Queries, k \in 1..MaxK, enc_fails \in BOOLEAN,
          query_fails \in BOOLEAN :
        \E r \in {IF db_type = "chroma" \/ db_type = "faiss"
                  THEN BackendSearch(query, k, enc_fails, query_fails)
                  ELSE [raised |-> FALSE, qvec |-> <<>>, results |-> <<>>]} :
          vdb_out' = [VdbNoOutcome EXCEPT !.op = "search", !.raised = r.raised,
                         !.query = query, !.k = k, !.enc_fails = enc_fails,
                         !.query_fails = query_fails, !.results = r.results,
                         !.qvec = r.qvec]
    /\ UNCHANGED <<chunkVars, embVars, db_type, collection, faiss_index, documents>>
    /\ UNCHANGED <<diskVars, chatVars, trimVars, procVars>>

\* After VectorDatabase(db_type) on an empty data directory
InitVDB ==
    /\ db_type \in DbTypes
    /\ collection = <<>>
    /\ faiss_index = <<>>
    /\ documents = <<>>
    /\ vdb_out = VdbNoOutcome
    /\ ChunkIdle
    /\ EmbIdle
    /\ DiskIdle
    /\ ChatIdle
    /\ TrimIdle
    /\ ProcIdle

NextVDB == AddDocumentsFromScrapedData \/ SearchSimilar

SpecVDB == InitVDB /\ [][NextVDB]_vars

---------------------------------------------------------------------------
(* FAISSVectorDB with its two files *)

\* A file of the data directory: missing, corrupt (or unreadable), or holding
\* what was written
NoFile == [state |-> "missing", data |-> <<>>]
CorruptFile == [state |-> "corrupt", data |-> <<>>]

\* faiss.write_index / pickle.dump on success; WriteEmpty writes nothing of it
WriteEmpty(data) == [state |-> "ok", data |-> <<>>]
WriteFile(data) == [state |-> "ok", data |-> data]

\* lines 366-374: _save_index. how = "ok"; "index_fails": write_index raises,
\* the metadata file is not touched; "metadata_fails": the index is written, then
\* opening or writing the metadata file raises. A failed write leaves the file
\* as it was or corrupt. The exception is logged and swallowed.
SaveOutcomes == {"ok", "index_fails", "metadata_fails"}
SaveIndex(how, index, docs, ifile, mfile) ==
    IF how = "ok"
    THEN {[index_file |-> WriteFile(index), metadata_file |-> WriteFile(docs)]}
    ELSE IF how = "index_fails"
    THEN {[index_file |-> f, metadata_file |-> mfile] : f \in {ifile, CorruptFile}}
    ELSE {[index_file |-> WriteFile(index), metadata_file |-> f] :
             f \in {mfile, CorruptFile}}

\* lines 376-385: _load_index on the fresh instance of __init__ (empty index,
\* no documents): nothing is read unless both files exist; read_index raising
\* leaves the instance empty; pickle.load raising comes after self.index was
\* assigned
LoadIndex(ifile, mfile) ==
    IF ifile.state = "missing" \/ mfile.state = "missing"
    THEN [index |-> <<>>, documents |-> <<>>]
    ELSE IF ifile.state = "corrupt"
    THEN [index |-> <<>>, documents |-> <<>>]
    ELSE IF mfile.state = "corrupt"
    THEN [index |-> ifile.data, documents |-> <<>>]
    ELSE [index |-> ifile.data, documents |-> mfile.data]

\* Chunks with their embeddings
FaissChunks ==
    {WithEmbedding(DocumentChunk(0, <<"a">>, "https://a.com", "A", 0, 0),
                   LibEncode(<<"a">>)),
     WithEmbedding(DocumentChunk(0, <<"a", "a">>, "https://b.com", "B", 0, 0),
                   LibEncode(<<"a", "a">>))}
\* A chunk without embedding, and one embedded by EmbeddingGenerator("openai")
OddChunks ==
    {WithEmbedding(DocumentChunk(0, <<"a", ".">>, "https://b.com", "B", 1, 0),
                   NoEmbedding),
     WithEmbedding(DocumentChunk(0, <<".">>, "https://a.com", "A", 1, 0),
                   OpenAIEncode(<<".">>))}
FaissChunkLists == UNION {[1..n -> FaissChunks \cup OddChunks] : n \in 0..MaxStored}
QueryVectors == {LibEncode(<<"a">>), LibEncode(<<"a", "a">>), ZerosVec(MINILM_DIM)}

\* FAISSVectorDB.add_documents(chunks), lines 307-326
FaissAdd ==
    /\ db_type = "faiss-direct"
    /\ \E cs \in FaissChunkLists, how \in SaveOutcomes :
        \E r \in {FaissAddDocuments(faiss_index, documents, cs)} :
          /\ Len(r.index) <= MaxStored
          /\ Len(r.documents) <= MaxStored
          /\ faiss_index' = r.index
          /\ documents' = r.documents
          /\ IF ~r.saves
             THEN /\ UNCHANGED diskVars
                  /\ vdb_out' = [VdbNoOutcome EXCEPT !.op = "faiss.add", !.chunks = cs,
                                    !.raised = r.raised,
                                    !.old_index = faiss_index,
                                    !.old_documents = documents]
             ELSE \E d \in SaveIndex(how, r.index, r.documents, index_file,
                                     metadata_file) :
                    /\ index_file' = d.index_file
                    /\ metadata_file' = d.metadata_file
                    /\ vdb_out' = [VdbNoOutcome EXCEPT !.op = "faiss.add",
                                      !.chunks = cs, !.saved = how,
                                      !.old_index = faiss_index,
                                      !.old_documents = documents]
    /\ UNCHANGED <<db_type, collection>>
    /\ UNCHANGED <<chunkVars, embVars, chatVars, trimVars, procVars>>

\* FAISSVectorDB.search(query_embedding, n_results), lines 328-364
FaissSearchCall ==
    /\ db_type = "faiss-direct"
    /\ \E q \in QueryVectors, k \in 1..MaxK :
        \E r \in {FaissSearch(faiss_index, documents, q, k)} :
          vdb_out' = [VdbNoOutcome EXCEPT !.op = "faiss.search", !.k = k,
                         !.raised = r.raised, !.results = r.results, !.qvec = r.qvec]
    /\ UNCHANGED <<db_type, collection, faiss_index, documents>>
    /\ UNCHANGED <<chunkVars, embVars, diskVars, chatVars, trimVars, procVars>>

\* A new FAISSVectorDB() on the same directory, lines 292-305
FaissRestart ==
    /\ db_type = "faiss-direct"
    /\ \E r \in {LoadIndex(index_file, metadata_file)} :
          /\ faiss_index' = r.index
          /\ documents' = r.documents
          /\ vdb_out' = [VdbNoOutcome EXCEPT !.op = "faiss.init",
                            !.old_index = faiss_index, !.old_documents = documents,
                            !.after_save = (vdb_out.op = "faiss.add"
                                            /\ vdb_out.saved = "ok")]
    /\ UNCHANGED <<db_type, collection>>
    /\ UNCHANGED <<chunkVars, embVars, diskVars, chatVars, trimVars, procVars>>

\* What the data directory may hold when the first instance is constructed
FirstIndexFiles == {NoFile, CorruptFile, WriteFile(<<DivideByNorm(LibEncode(<<"a">>))>>)}
FirstMetadataFiles ==
    {NoFile, CorruptFile,
     WriteFile(<<WithEmbedding(DocumentChunk(0, <<"a">>, "https://a.com", "A", 0, 0),
                               LibEncode(<<"a">>))>>)}

\* After FAISSVectorDB() on a data directory in any of these states
InitFaiss ==
    /\ db_type = "faiss-direct"
    /\ collection = <<>>
    /\ index_file \in FirstIndexFiles
    /\ metadata_file \in FirstMetadataFiles
    /\ faiss_index = LoadIndex(index_file, metadata_file).index
    /\ documents = LoadIndex(index_file, metadata_file).documents
    /\ vdb_out = [VdbNoOutcome EXCEPT !.op = "faiss.init"]
    /\ ChunkIdle
    /\ EmbIdle
    /\ ChatIdle
    /\ TrimIdle
    /\ ProcIdle

NextFaiss == FaissAdd \/ FaissSearchCall \/ FaissRestart

SpecFaiss == InitFaiss /\ [][NextFaiss]_vars

---------------------------------------------------------------------------
(* One FAISSVectorDB used by two threads: add_documents and search, a step  *)
(* being one statement of the method; the interpreter may switch threads     *)
(* between any two statements, and nothing in the class takes a lock.        *)

\* add_documents(chunks) entered, lines 307-312
AddBegin ==
    /\ db_type = "faiss-threads"
    /\ adder.pc = "idle"
    /\ \E cs \in FaissChunkLists :
          /\ cs # <<>>
          /\ Len(documents) + Len(cs) <= MaxStored
          /\ adder' = [pc |-> "loop", chunks |-> cs, i |-> 0, embeddings |-> <<>>]
    /\ UNCHANGED <<searcher, vdbVars, diskVars>>
    /\ UNCHANGED <<chunkVars, embVars, chatVars, trimVars, requestVars, scrapeVars>>

\* lines 313-318: one iteration of the loop over chunks
AddLoop ==
    /\ adder.pc = "loop"
    /\ adder.i < Len(adder.chunks)
    /\ LET chunk == adder.chunks[adder.i + 1]
       IN  IF HasEmbedding(chunk)
           THEN /\ documents' = Append(documents, chunk)
                /\ adder' = [adder EXCEPT !.i = adder.i + 1,
                                !.embeddings = Append(adder.embeddings, chunk)]
           ELSE /\ documents' = documents
                /\ adder' = [adder EXCEPT !.i = adder.i + 1]
    /\ UNCHANGED <<searcher, db_type, collection, faiss_index, vdb_out, diskVars>>
    /\ UNCHANGED <<chunkVars, embVars, chatVars, trimVars, requestVars, scrapeVars>>

\* lines 320-322: index.add of the rows collected; it may raise, and there is
\* nothing to add or save when no chunk had an embedding
AddIndex ==
    /\ adder.pc = "loop"
    /\ adder.i = Len(adder.chunks)
    /\ IF adder.embeddings = <<>> \/ IndexAddRaises(adder.embeddings)
       THEN /\ faiss_index' = faiss_index
            /\ adder' = NoThread
       ELSE /\ faiss_index' = faiss_index \o
                    [j \in 1..Len(adder.embeddings) |->
                        DivideByNorm(adder.embeddings[j].embedding)]
            /\ adder' = [adder EXCEPT !.pc = "save"]
    /\ UNCHANGED <<searcher, db_type, collection, documents, vdb_out, diskVars>>
    /\ UNCHANGED <<chunkVars, embVars, chatVars, trimVars, requestVars, scrapeVars>>

\* line 326: _save_index
AddSave ==
    /\ adder.pc = "save"
    /\ \E how \in SaveOutcomes :
        \E d \in SaveIndex(how, faiss_index, documents, index_file, metadata_file) :
          /\ index_file' = d.index_file
          /\ metadata_file' = d.metadata_file
    /\ adder' = NoThread
    /\ UNCHANGED <<searcher, vdbVars>>
    /\ UNCHANGED <<chunkVars, embVars, chatVars, trimVars, requestVars, scrapeVars>>

\* search(query_embedding, n_results) entered
SearchBegin ==
    /\ db_type = "faiss-threads"
    /\ searcher.pc = "idle"
    /\ \E q \in QueryVectors, k \in 1..MaxK :
          searcher' = [pc |-> "check", q |-> q, k |-> k, hits |-> <<>>]
    /\ UNCHANGED <<adder, vdbVars, diskVars>>
    /\ UNCHANGED <<chunkVars, embVars, chatVars, trimVars, requestVars, scrapeVars>>

\* The adder has made a mutation of its call and not yet the last one
AdderMidway ==
    \/ adder.pc = "loop" /\ adder.embeddings # <<>>
    \/ adder.pc = "save"

\* lines 339-340: if self.index.ntotal == 0: return []
SearchCheck ==
    /\ searcher.pc = "check"
    /\ IF Len(faiss_index) = 0
       THEN /\ searcher' = NoThread
            /\ vdb_out' = [VdbNoOutcome EXCEPT !.op = "thread.search",
                              !.k = searcher.k]
       ELSE /\ searcher' = [searcher EXCEPT !.pc = "search"]
            /\ vdb_out' = vdb_out
    /\ UNCHANGED <<adder, db_type, collection, faiss_index, documents, diskVars>>
    /\ UNCHANGED <<chunkVars, embVars, chatVars, trimVars, requestVars, scrapeVars>>

\* lines 343-346: the query normalised and index.search
SearchIndex ==
    /\ searcher.pc = "search"
    /\ searcher' =
          [searcher EXCEPT
             !.pc = "format",
             !.hits = IndexSearch(faiss_index, DivideByNorm(searcher.q),
                                  Min(searcher.k, Len(faiss_index)))]
    /\ UNCHANGED <<adder, vdbVars, diskVars>>
    /\ UNCHANGED <<chunkVars, embVars, chatVars, trimVars, requestVars, scrapeVars>>

\* lines 348-364: the result loop and the return
SearchFormat ==
    /\ searcher.pc = "format"
    /\ vdb_out' =
          [VdbNoOutcome EXCEPT
             !.op = "thread.search", !.k = searcher.k,
             !.raised = \E r \in 1..Len(searcher.hits) :
                           /\ searcher.hits[r].idx < Len(documents)
                           /\ ~PyIndexOk(documents, searcher.hits[r].idx),
             !.results = IF \E r \in 1..Len(searcher.hits) :
                               /\ searcher.hits[r].idx < Len(documents)
                               /\ ~PyIndexOk(documents, searcher.hits[r].idx)
                         THEN <<>> ELSE FormatHits(searcher.hits, documents)]
    /\ searcher' = NoThread
    /\ UNCHANGED <<adder, db_type, collection, faiss_index, documents, diskVars>>
    /\ UNCHANGED <<chunkVars, embVars, chatVars, trimVars, requestVars, scrapeVars>>

\* After FAISSVectorDB() on an empty data directory, shared by the two threads
InitThreads ==
    /\ db_type = "faiss-threads"
    /\ collection = <<>>
    /\ faiss_index = <<>>
    /\ documents = <<>>
    /\ vdb_out = VdbNoOutcome
    /\ DiskIdle
    /\ ChunkIdle
    /\ EmbIdle
    /\ ChatIdle
    /\ TrimIdle
    /\ ProcIdle

NextThreads ==
    \/ AddBegin
    \/ AddLoop
    \/ AddIndex
    \/ AddSave
    \/ SearchBegin
    \/ SearchCheck
    \/ SearchIndex
    \/ SearchFormat

SpecThreads == InitThreads /\ [][NextThreads]_vars

---------------------------------------------------------------------------
(* ChromaVectorDB and RobustChromaVectorDB called directly *)

\* collection.add(ids=, documents=, metadatas=) on three lists: it raises and
\* stores nothing when the lists are empty or of unequal lengths, when two ids
\* are equal, or when the store refuses an entry (refused)
ListsAddRaises(ids, documents_, metadatas, refused) ==
    \/ documents_ = <<>>
    \/ Len(ids) # Len(documents_)
    \/ Len(metadatas) # Len(documents_)
    \/ \E i, j \in 1..Len(ids) : i < j /\ ids[i] = ids[j]
    \/ refused

ListsAdd(coll, ids, documents_, metadatas) ==
    coll \o [i \in 1..Len(documents_) |->
                [id |-> ids[i], document |-> documents_[i], metadata |-> metadatas[i],
                 embedding |-> LibEncode(documents_[i])]]

\* robust_vector_db.py line 216
BatchSizeAll(n) == Max(1, n)
BatchSize(n) == Max(1, n \div 10)

\* robust_vector_db.py lines 217-230: after a failed whole-batch add, the loop
\* over i = 0, size, 2 size, ...: the three slices [i : i + size] are added in
\* one collection.add inside a try of its own; acc is the collection and the
\* list of the attempts so far, from the next i, bad the positions of the
\* documents the store refuses
RECURSIVE AddBatches(_, _, _, _, _, _, _)
AddBatches(acc, ids, documents_, metadatas, bad, size, from) ==
    IF from >= Len(documents_) THEN acc
    ELSE LET batch_ids   == PySlice(ids, from, from + size)
             batch_docs  == PySlice(documents_, from, from + size)
             batch_metas == PySlice(metadatas, from, from + size)
             refused     == \E i \in (from + 1)..(from + size) : i \in bad
             raises      == ListsAddRaises(batch_ids, batch_docs, batch_metas, refused)
         IN  AddBatches(
                [collection |-> IF raises THEN acc.collection
                                ELSE ListsAdd(acc.collection, batch_ids, batch_docs,
                                              batch_metas),
                 attempts   |-> Append(acc.attempts,
                                       [from |-> from, ids |-> batch_ids,
                                        documents |-> batch_docs,
                                        metadatas |-> batch_metas,
                                        raised |-> raises])],
                ids, documents_, metadatas, bad, size, from + size)

\* robust_vector_db.py lines 202-230: RobustChromaVectorDB.add_documents
RobustAddDocuments(coll, documents_, metadatas, ids, bad) ==
    IF ~ListsAddRaises(ids, documents_, metadatas, bad # {})
    THEN [collection |-> ListsAdd(coll, ids, documents_, metadatas),
          attempts |-> <<>>, whole_raised |-> FALSE, raised |-> FALSE]
    ELSE LET acc == AddBatches([collection |-> coll, attempts |-> <<>>], ids,
                               documents_, metadatas, bad,
                               BatchSize(Len(documents_)), 0)
         IN  [collection |-> acc.collection, attempts |-> acc.attempts,
              whole_raised |-> TRUE, raised |-> FALSE]

\* robust_vector_db.py lines 232-256: RobustChromaVectorDB.search
RobustSearch(coll, query, k, query_fails) ==
    IF query_fails THEN <<>> ELSE FormatResults(CollectionQuery(coll, query, k))

StoreChunks ==
    {DocumentChunk(0, <<"a">>, "https://a.com", "A", 0, 0),
     DocumentChunk(0, <<"a", "a">>, "https://b.com", "B", 0, 0),
     DocumentChunk(0, <<"a", ".">>, "https://b.com", "B", 1, 0)}
StoreChunkLists == UNION {[1..n -> StoreChunks] : n \in 0..MaxStored}

\* add_documents called on the backend
StoreAdd ==
    /\ db_type \in {"chroma-direct", "robust-direct"}
    /\ \E cs \in StoreChunkLists :
        \E bad \in SUBSET (1..Len(cs)) :
          /\ Len(collection) + Len(cs) <= MaxDocs
          /\ IF db_type = "chroma-direct"
             THEN \E r \in {ChromaAddDocuments(collection, cs, bad)} :
                    /\ collection' = r.collection
                    /\ vdb_out' = [VdbNoOutcome EXCEPT !.op = "chroma.add",
                                      !.raised = r.raised, !.chunks = cs, !.bad = bad]
             ELSE \E r \in {RobustAddDocuments(collection,
                                                [i \in 1..Len(cs) |-> cs[i].content],
                                                [i \in 1..Len(cs) |-> Metadata(cs[i])],
                                                [i \in 1..Len(cs) |-> cs[i].id],
                                                bad)} :
                    /\ collection' = r.collection
                    /\ vdb_out' = [VdbNoOutcome EXCEPT !.op = "robust.add",
                                      !.raised = r.raised, !.chunks = cs,
                                      !.bad = bad]
    /\ UNCHANGED <<db_type, faiss_index, documents>>
    /\ UNCHANGED <<chunkVars, embVars, diskVars, chatVars, trimVars, procVars>>

\* search(query, n_results) called on the backend
StoreSearch ==
    /\ db_type \in {"chroma-direct", "robust-direct"}
    /\ \E query \in Queries, k \in 1..MaxK, query_fails \in BOOLEAN :
          vdb_out' =
             [VdbNoOutcome EXCEPT
                !.op = IF db_type = "chroma-direct" THEN "chroma.search"
                       ELSE "robust.search",
                !.query = query, !.k = k, !.query_fails = query_fails,
                !.results = IF db_type = "chroma-direct"
                            THEN ChromaSearch(collection, query, k, query_fails)
                            ELSE RobustSearch(collection, query, k, query_fails)]
    /\ UNCHANGED <<db_type, collection, faiss_index, documents>>
    /\ UNCHANGED <<chunkVars, embVars, diskVars, chatVars, trimVars, procVars>>

\* After ChromaVectorDB() or RobustChromaVectorDB() on an empty collection
InitStore ==
    /\ db_type \in {"chroma-direct", "robust-direct"}
    /\ collection = <<>>
    /\ faiss_index = <<>>
    /\ documents = <<>>
    /\ vdb_out = VdbNoOutcome
    /\ ChunkIdle
    /\ EmbIdle
    /\ DiskIdle
    /\ ChatIdle
    /\ TrimIdle
    /\ ProcIdle

NextStore == StoreAdd \/ StoreSearch

SpecStore == InitStore /\ [][NextStore]_vars

---------------------------------------------------------------------------
(* RobustChromaVectorDB.add_documents on batches of many documents *)

\* The three lists of a call with n documents, the ids new to a collection of
\* held entries; short: the ids list lacks its last entry
BatchDocuments(n) == [i \in 1..n |-> [j \in 1..((i % 3) + 1) |-> "a"]]
BatchMetadatas(n) ==
    [i \in 1..n |-> [source_url |-> "https://a.com", title |-> "A",
                     chunk_index |-> i, created_at |-> 0]]
BatchIds(held, n, short) ==
    [i \in 1..(IF short /\ n > 0 THEN n - 1 ELSE n) |-> <<held, i>>]

\* The sets of at most two positions the store refuses
BadSets(n) == {{}} \cup {{p, q} : p, q \in 1..n}

\* add_documents(documents, metadatas, ids), robust_vector_db.py lines 202-230
RobustAddCall ==
    /\ db_type = "robust-batch"
    /\ \E n \in 0..MaxMany, short \in BOOLEAN :
        \E bad \in BadSets(n) :
          /\ collection = <<>> \/ (Len(collection) <= MaxBatch /\ n <= MaxBatch)
          /\ \E l \in {[documents |-> BatchDocuments(n), metadatas |-> BatchMetadatas(n),
                         ids |-> BatchIds(Len(collection), n, short)]} :
             \E r \in {RobustAddDocuments(collection, l.documents, l.metadatas, l.ids,
                                          bad)} :
               /\ collection' = r.collection
               /\ vdb_out' = [VdbNoOutcome EXCEPT !.op = "robust.add",
                                 !.raised = r.raised, !.bad = bad, !.lists = <<l>>,
                                 !.attempts = r.attempts,
                                 !.whole_raised = r.whole_raised,
                                 !.old_index = collection]
    /\ UNCHANGED <<db_type, faiss_index, documents>>
    /\ UNCHANGED <<chunkVars, embVars, diskVars, chatVars, trimVars, procVars>>

\* After RobustChromaVectorDB() on an empty collection
InitBatch ==
    /\ db_type = "robust-batch"
    /\ collection = <<>>
    /\ faiss_index = <<>>
    /\ documents = <<>>
    /\ vdb_out = VdbNoOutcome
    /\ ChunkIdle
    /\ EmbIdle
    /\ DiskIdle
    /\ ChatIdle
    /\ TrimIdle
    /\ ProcIdle

NextBatch == RobustAddCall

SpecBatch == InitBatch /\ [][NextBatch]_vars

---------------------------------------------------------------------------
(* ChatBot and OllamaChatBot: generate_response *)

Questions == {"q1", "q2"}

\* The completion the model gives to a question
AnswerTo(q) == <<"answer to", q>>

Turn(role, content) == [role |-> role, content |-> content]

\* the two appends; AppendTurnsSwapped appends the answer first
AppendTurnsSwapped(h, q, a) == h \o <<Turn("assistant", a), Turn("user", q)>>
AppendTurns(h, q, a) == h \o <<Turn("user", q), Turn("assistant", a)>>

\* h[-n:] for n > 0
LastTurns(h, n) == PySlice(h, 0 - n, Len(h))

\* if len(h) > 20: h = h[-20:]
CapHistory(h) == IF Len(h) > HISTORY_CAP THEN LastTurns(h, HISTORY_CAP) ELSE h

\* len(search_results) if search_results else 0, n the length of the list passed
\* (0 for None and for the empty list)
SourcesUsed(n) == IF n > 0 THEN n ELSE 0

\* Where a call can leave its try block. ChatBot: "format" building the prompt
\* (lines 199-223), "api" the completion call (226-234), "extract" reading
\* choices[0].message.content (237), "usage" reading response.usage.* while
\* building response_data (248-259, usage being None), "ok" the return.
\* OllamaChatBot: "format" (201-221), "api" _call_ollama_api (224), "ok"; what
\* follows its appends (234-245) cannot raise for a list of results.
Stages(b) ==
    IF b = "openai" THEN {"format", "api", "extract", "usage", "ok"}
    ELSE {"format", "api", "ok"}

\* the stages that lie behind the two appends
AfterAppend == {"usage", "ok"}

\* generate_response(user_question, search_results)
GenerateResponse ==
    /\ bot \in {"openai", "ollama"}
    /\ Len(full_turns) < 2 * MaxExchanges
    /\ \E q \in Questions, n \in 0..MaxResults, stage \in Stages(bot) :
          /\ conversation_history' =
                IF stage \in AfterAppend
                THEN CapHistory(AppendTurns(conversation_history, q, AnswerTo(q)))
                ELSE conversation_history
          /\ full_turns' =
                IF stage \in AfterAppend
                THEN AppendTurns(full_turns, q, AnswerTo(q))
                ELSE full_turns
          /\ successes' = IF stage = "ok" THEN successes + 1 ELSE successes
          /\ chat_out' =
                [op |-> "generate", error |-> stage # "ok",
                 before |-> conversation_history, question |-> q,
                 answer |-> IF stage = "ok" THEN AnswerTo(q) ELSE <<>>,
                 results |-> n,
                 sources_used |-> IF stage = "ok" THEN SourcesUsed(n) ELSE 0,
                 rendered |-> <<>>]
    /\ UNCHANGED bot
    /\ UNCHANGED <<chunkVars, embVars, vdbVars, diskVars, trimVars, procVars>>

\* clear_conversation_history()
ClearConversationHistory ==
    /\ bot \in {"openai", "ollama"}
    /\ conversation_history' = <<>>
    /\ full_turns' = <<>>
    /\ successes' = 0
    /\ chat_out' = [ChatNoOutcome EXCEPT !.op = "clear", !.before = conversation_history]
    /\ UNCHANGED bot
    /\ UNCHANGED <<chunkVars, embVars, vdbVars, diskVars, trimVars, procVars>>

\* After ChatBot() or OllamaChatBot()
InitChat ==
    /\ bot \in {"openai", "ollama"}
    /\ conversation_history = <<>>
    /\ full_turns = <<>>
    /\ successes = 0
    /\ chat_out = ChatNoOutcome
    /\ ChunkIdle
    /\ EmbIdle
    /\ VdbIdle
    /\ DiskIdle
    /\ TrimIdle
    /\ ProcIdle

NextChat == GenerateResponse \/ ClearConversationHistory

SpecChat == InitChat /\ [][NextChat]_vars

---------------------------------------------------------------------------
(* ChatBot.count_tokens and ChatBot.trim_context *)

\* A string is a sequence of atoms: a word "w" (one token, adjacent words being
\* separated by a blank), a line feed "\n" (one token), or the special token
\* text Special, on which tokenizer.encode raises ValueError.
Special == "<|endoftext|>"
Atoms == {"w", "\n", Special}
Contexts == UNION {[1..n -> Atoms] : n \in 0..MaxContext}

\* "\n... (contexte tronqué pour respecter les limites de tokens)"
Marker == <<"\n", "...", "(contexte", "tronque", "pour", "respecter", "les",
            "limites", "de", "tokens)">>

\* len(text.split())
WordCount(s) == Cardinality({i \in 1..Len(s) : s[i] # "\n"})

\* lines 79-93: count_tokens, in tenths of a token: len(tokenizer.encode(text)),
\* or len(text.split()) * 1.3 when encode raises
CountTokens(s) ==
    IF \E i \in 1..Len(s) : s[i] = Special
    THEN 13 * WordCount(s)
    ELSE 10 * Len(s)

\* context.split('\n')
RECURSIVE SplitLines(_)
SplitLines(s) ==
    IF \A i \in 1..Len(s) : s[i] # "\n" THEN <<s>>
    ELSE LET k == CHOOSE i \in 1..Len(s) :
                      s[i] = "\n" /\ \A j \in 1..(i - 1) : s[j] # "\n"
         IN  <<SubSeq(s, 1, k - 1)>> \o SplitLines(SubSeq(s, k + 1, Len(s)))

\* '\n'.join(lines)
RECURSIVE JoinLines(_)
JoinLines(ls) ==
    IF ls = <<>> THEN <<>>
    ELSE IF Len(ls) = 1 THEN ls[1]
    ELSE JoinLines(SubSeq(ls, 1, Len(ls) - 1)) \o <<"\n">> \o ls[Len(ls)]

\* current_tokens after the first n lines
RECURSIVE TokensOfLines(_, _)
TokensOfLines(ls, n) ==
    IF n = 0 THEN 0 ELSE TokensOfLines(ls, n - 1) + CountTokens(ls[n])

\* lines 114-120: how many lines the loop appends before it breaks or ends
KeptLines(ls, mx) ==
    CHOOSE n \in 0..Len(ls) :
        /\ TokensOfLines(ls, n) <= 10 * mx
        /\ \A k \in 1..n : TokensOfLines(ls, k) <= 10 * mx
        /\ (n < Len(ls) => TokensOfLines(ls, n + 1) > 10 * mx)

\* lines 123-124: the marker appended when something was cut
WithMarker(trimmed, ctx) ==
    IF Len(trimmed) < Len(ctx) THEN trimmed \o Marker ELSE trimmed

\* lines 95-126: trim_context
TrimContextOf(ctx, mx) ==
    IF CountTokens(ctx) <= 10 * mx THEN ctx
    ELSE LET ls == SplitLines(ctx)
         IN  WithMarker(JoinLines(SubSeq(ls, 1, KeptLines(ls, mx))), ctx)

TrimContext ==
    /\ trim_out = <<>>
    /\ trim_out' = <<TrimContextOf(context, max_tokens)>>
    /\ UNCHANGED <<context, max_tokens>>
    /\ UNCHANGED <<chunkVars, embVars, vdbVars, diskVars, chatVars, procVars>>

InitTrim ==
    /\ context \in Contexts
    /\ max_tokens \in 0..MaxBudget
    /\ trim_out = <<>>
    /\ ChunkIdle
    /\ EmbIdle
    /\ VdbIdle
    /\ DiskIdle
    /\ ChatIdle
    /\ ProcIdle

SpecTrim == InitTrim /\ [][TrimContext]_vars

---------------------------------------------------------------------------
(* ChatBot and OllamaChatBot: format_conversation_history *)

\* The contents of a turn, strings as in trim_context: one word, or two words
\* on two lines
Contents == {<<"w">>, <<"w", "\n", "w">>}

\* The histories generate_response builds: user and assistant turns in pairs
Exchanges == {<<Turn("user", q), Turn("assistant", a)>> : q \in Contents, a \in Contents}
RECURSIVE Flatten(_)
Flatten(ps) == IF ps = <<>> THEN <<>> ELSE Head(ps) \o Flatten(Tail(ps))
Histories == {Flatten(ps) : ps \in UNION {[1..n -> Exchanges] : n \in 0..MaxPairs}}

Placeholder == <<"Aucune conversation precedente.">>

\* line 171: self.conversation_history[-6:]; RecentAll takes every turn
RecentAll(h) == h
Recent(h) == LastTurns(h, RECENT_TURNS)

\* lines 173-179: one part per message of role user or assistant
HistoryPart(message) ==
    <<IF message.role = "user" THEN "Utilisateur: " ELSE "Assistant: ">>
        \o message.content
HasKnownRole(message) == message.role \in {"user", "assistant"}
HistoryParts(h) ==
    LET known == SelectSeq(Recent(h), HasKnownRole)
    IN  [i \in 1..Len(known) |-> HistoryPart(known[i])]

\* lines 159-181 (ollama_chatbot.py lines 163-185): the string returned
FormatConversationHistoryOf(h) ==
    IF h = <<>> THEN Placeholder ELSE JoinLines(HistoryParts(h))

\* format_conversation_history()
FormatConversationHistory ==
    /\ bot \in {"openai", "ollama"}
    /\ chat_out' = [ChatNoOutcome EXCEPT
                       !.op = "format", !.before = conversation_history,
                       !.rendered = FormatConversationHistoryOf(conversation_history)]
    /\ UNCHANGED <<bot, conversation_history, full_turns, successes>>
    /\ UNCHANGED <<chunkVars, embVars, vdbVars, diskVars, trimVars, procVars>>

\* A ChatBot or OllamaChatBot after some exchanges
InitFormat ==
    /\ bot \in {"openai", "ollama"}
    /\ conversation_history \in Histories
    /\ full_turns = conversation_history
    /\ successes = Len(conversation_history) \div 2
    /\ chat_out = ChatNoOutcome
    /\ ChunkIdle
    /\ EmbIdle
    /\ VdbIdle
    /\ DiskIdle
    /\ TrimIdle
    /\ ProcIdle

NextFormat == FormatConversationHistory

SpecFormat == InitFormat /\ [][NextFormat]_vars

---------------------------------------------------------------------------
(* The API server: /api/chat requests served by threads (app.run with     *)
(* threaded=True) on the one ChatBot of the process, a step being one       *)
(* statement of generate_response.                                          *)

\* The history after n exchanges served one after the other
RECURSIVE HistoryAfter(_)
HistoryAfter(n) ==
    IF n = 0 THEN <<>>
    ELSE AppendTurns(HistoryAfter(n - 1), "q1", AnswerTo("q1"))

NoRequest == [pc |-> "idle", question |-> "", answer |-> <<>>, slice |-> <<>>]

\* api_server.py lines 89-112 and chatbot.py lines 198-237: the request read,
\* the prompt built and the completion received
RequestAnswered(r) ==
    /\ requests[r].pc = "idle"
    /\ \E q \in Questions :
          requests' = [requests EXCEPT ![r] = [pc |-> "user", question |-> q,
                                              answer |-> AnswerTo(q), slice |-> <<>>]]
    /\ UNCHANGED <<chatVars, threadVars, scrapeVars>>
    /\ UNCHANGED <<chunkVars, embVars, vdbVars, diskVars, trimVars>>

\* chatbot.py line 240: the user turn appended
RequestAppendUser(r) ==
    /\ requests[r].pc = "user"
    /\ conversation_history' =
          Append(conversation_history, Turn("user", requests[r].question))
    /\ full_turns' = Append(full_turns, Turn("user", requests[r].question))
    /\ requests' = [requests EXCEPT ![r].pc = "assistant"]
    /\ UNCHANGED <<bot, successes, chat_out, threadVars, scrapeVars>>
    /\ UNCHANGED <<chunkVars, embVars, vdbVars, diskVars, trimVars>>

\* chatbot.py line 241: the assistant turn appended
RequestAppendAssistant(r) ==
    /\ requests[r].pc = "assistant"
    /\ conversation_history' =
          Append(conversation_history, Turn("assistant", requests[r].answer))
    /\ full_turns' = Append(full_turns, Turn("assistant", requests[r].answer))
    /\ requests' = [requests EXCEPT ![r].pc = "cap"]
    /\ UNCHANGED <<bot, successes, chat_out, threadVars, scrapeVars>>
    /\ UNCHANGED <<chunkVars, embVars, vdbVars, diskVars, trimVars>>

\* chatbot.py lines 244-245, right-hand side: the length tested and the slice
\* self.conversation_history[-20:] taken
RequestSlice(r) ==
    /\ requests[r].pc = "cap"
    /\ requests' =
          IF Len(conversation_history) > HISTORY_CAP
          THEN [requests EXCEPT ![r].pc = "assign",
                                ![r].slice = LastTurns(conversation_history,
                                                       HISTORY_CAP)]
          ELSE [requests EXCEPT ![r].pc = "done"]
    /\ UNCHANGED <<chatVars, threadVars, scrapeVars>>
    /\ UNCHANGED <<chunkVars, embVars, vdbVars, diskVars, trimVars>>

\* chatbot.py line 245, assignment: the slice stored in self.conversation_history
RequestAssign(r) ==
    /\ requests[r].pc = "assign"
    /\ conversation_history' = requests[r].slice
    /\ requests' = [requests EXCEPT ![r].pc = "done"]
    /\ UNCHANGED <<bot, full_turns, successes, chat_out, threadVars, scrapeVars>>
    /\ UNCHANGED <<chunkVars, embVars, vdbVars, diskVars, trimVars>>

\* api_server.py lines 39-47 and main.py lines 70-76: one ChatBot for the
\* process, some exchanges already served, MaxRequests requests arriving
InitRequests ==
    /\ bot = "openai"
    /\ conversation_history \in {HistoryAfter(n) : n \in 0..(HISTORY_CAP \div 2)}
    /\ full_turns = conversation_history
    /\ successes = Len(conversation_history) \div 2
    /\ chat_out = ChatNoOutcome
    /\ requests = [r \in 1..MaxRequests |-> NoRequest]
    /\ adder = NoThread
    /\ searcher = NoThread
    /\ scraped_pages = <<>>
    /\ scrape_out = NoScrape
    /\ ChunkIdle
    /\ EmbIdle
    /\ VdbIdle
    /\ DiskIdle
    /\ TrimIdle

NextRequests ==
    \E r \in 1..MaxRequests :
        \/ RequestAnswered(r)
        \/ RequestAppendUser(r)
        \/ RequestAppendAssistant(r)
        \/ RequestSlice(r)
        \/ RequestAssign(r)

SpecRequests == InitRequests /\ [][NextRequests]_vars

---------------------------------------------------------------------------
(* WebScraper.scrape_website on one scraper instance.  A site is the link   *)
(* list of each of its pages; "x" stands for a URL _is_valid_url refuses     *)
(* (another domain, or a file that is not HTML).                             *)

SiteUrls == {"a", "b", "c"}
LinkLists == {<<>>, <<"b", "x", "a">>, <<"c", "b">>}
Sites == [SiteUrls -> LinkLists]

IsValidUrl(url) == url \in SiteUrls

\* _scrape_page_requests: the page of a URL, None (here <<>>) when the request fails
ScrapePage(site, failing, url) ==
    IF url \in failing THEN <<>> ELSE <<[url |-> url, links |-> site[url]]>>

\* The while loop of scrape_website
RECURSIVE ScrapeLoop(_, _, _, _, _, _)
ScrapeLoop(pages, urls_to_visit, visited_urls, max_pages, site, failing) ==
    IF urls_to_visit = <<>> \/ ~(Len(pages) < max_pages) THEN pages
    ELSE LET current_url == Head(urls_to_visit)
             rest == Tail(urls_to_visit)
             visited == visited_urls \cup {current_url}
             scraped_page == ScrapePage(site, failing, current_url)
         IN  IF current_url \in visited_urls \/ ~IsValidUrl(current_url)
             THEN ScrapeLoop(pages, rest, visited_urls, max_pages, site, failing)
             ELSE IF scraped_page = <<>>
             THEN ScrapeLoop(pages, rest, visited, max_pages, site, failing)
             ELSE ScrapeLoop(pages \o scraped_page,
                             rest \o SelectSeq(scraped_page[1].links,
                                               LAMBDA link : link \notin visited
                                                             /\ IsValidUrl(link)),
                             visited, max_pages, site, failing)

\* scrape_website(start_url, max_pages): max_pages defaulted, the loop run on
\* self.scraped_pages, the pages saved when there are some, the list returned
ScrapeWebsite ==
    /\ Len(scraped_pages) <= MaxScraped
    /\ \E start_url \in SiteUrls, given \in BOOLEAN, n \in 0..MaxPagesArg,
          site \in Sites, failing \in {{}, {"b"}} :
          LET max_pages == IF given THEN n ELSE MAX_PAGES_PER_SITE
          IN  \E pages \in {ScrapeLoop(scraped_pages, <<start_url>>, {},
                                        max_pages, site, failing)} :
                  /\ scraped_pages' = pages
                  /\ scrape_out' = [op |-> "scrape", start_url |-> start_url,
                                    max_pages |-> max_pages, returned |-> pages,
                                    before |-> scraped_pages, saved |-> pages]
    /\ UNCHANGED <<threadVars, requestVars>>
    /\ UNCHANGED <<chunkVars, embVars, vdbVars, diskVars, chatVars, trimVars>>

\* WebScraper.__init__: nothing scraped yet
InitScrape ==
    /\ scraped_pages = <<>>
    /\ scrape_out = NoScrape
    /\ adder = NoThread
    /\ searcher = NoThread
    /\ requests = <<>>
    /\ ChunkIdle
    /\ EmbIdle
    /\ VdbIdle
    /\ DiskIdle
    /\ ChatIdle
    /\ TrimIdle

NextScrape == ScrapeWebsite

SpecScrape == InitScrape /\ [][NextScrape]_vars

---------------------------------------------------------------------------
(* Claims about TextChunker.chunk_text *)

WindowText(w) == PySlice(text, w[1], w[2])
Returned == pc = "done"
LongBranch == Len(text) > chunk_size
ValidOverlap == 0 <= chunk_overlap /\ chunk_overlap < chunk_size

\* C1: every chunk returned by chunk_text has content length <= chunk_size, in the
\* single-chunk branch as in the sliding-window branch.
C1_ChunkSizeBound ==
    Returned => \A i \in 1..Len(chunks) : Len(chunks[i].content) <= chunk_size

\* C1 witness: a returned list of several chunks, one of them exactly chunk_size
\* long and one window cut back to a separator.
C1_Witness ==
    /\ Returned
    /\ Len(chunks) >= 2
    /\ \E i \in 1..Len(chunks) : Len(chunks[i].content) = chunk_size
    /\ \E i \in 1..Len(windows) : windows[i][2] < windows[i][1] + chunk_size

\* The windows leave no gap: the first starts at 0, each next one starts at the
\* previous end minus the overlap, the last one reaches the end of the text.
WindowsCover ==
    /\ windows # <<>>
    /\ windows[1][1] = 0
    /\ \A i \in 2..Len(windows) : windows[i][1] = windows[i - 1][2] - chunk_overlap
    /\ windows[Len(windows)][2] >= Len(text)

\* The pieces, each minus its first ov characters except the first, concatenated.
RECURSIVE Reassemble(_, _)
Reassemble(pieces, ov) ==
    IF pieces = <<>> THEN <<>>
    ELSE IF Len(pieces) = 1 THEN pieces[1]
    ELSE Reassemble(SubSeq(pieces, 1, Len(pieces) - 1), ov)
         \o PySlice(pieces[Len(pieces)], ov, Len(pieces[Len(pieces)]))

ChunkContents == [i \in 1..Len(chunks) |-> chunks[i].content]
WindowTexts == [i \in 1..Len(windows) |-> WindowText(windows[i])]

RECURSIVE NonEmptyOnly(_)
NonEmptyOnly(ss) ==
    IF ss = <<>> THEN <<>>
    ELSE IF Head(ss) = <<>> THEN NonEmptyOnly(Tail(ss))
    ELSE <<Head(ss)>> \o NonEmptyOnly(Tail(ss))

C3_TwoChunks ==
    Returned =>
        /\ Len(chunks) = 2
        /\ chunks[1].chunk_index = 0
        /\ chunks[2].chunk_index = 1
        /\ LET w1 == WindowTexts[1]
               w2 == WindowTexts[2]
           IN  PySlice(w1, Len(w1) - chunk_overlap, Len(w1))
                   = PySlice(w2, 0, chunk_overlap)

\* C4: no returned chunk is empty after trimming whitespace (so an empty or
\* all-whitespace text yields the empty list).
C4_NoEmptyChunk ==
    Returned => \A i \in 1..Len(chunks) : Strip(chunks[i].content) # <<>>

\* A chunk without its created_at
NoTime(c) == [id |-> c.id, content |-> c.content, source_url |-> c.source_url,
              title |-> c.title, chunk_index |-> c.chunk_index]
NoTimes(cs) == [i \in 1..Len(cs) |-> NoTime(cs[i])]

\* C5: two invocations with the same arguments and configuration, in whichever
\* processes, return the same chunks up to created_at (ids included).
C5_Deterministic ==
    (Returned /\ prev # <<>>) => NoTimes(chunks) = NoTimes(prev[1])

---------------------------------------------------------------------------
(* Claims about the embedding providers *)

\* C6: a RobustEmbeddingFunction call made with model_type 'none', or in which
\* the active provider throws, does not raise and returns one vector of
\* dimension 384 per input text.
C6_FallbackTotal ==
    (emb_out.op \in {"call", "query"} /\ (model_type = "none" \/ emb_out.threw)) =>
        /\ ~emb_out.raised
        /\ Len(emb_out.vectors) = Len(emb_out.input)
        /\ \A i \in 1..Len(emb_out.vectors) : Dim(emb_out.vectors[i]) = MINILM_DIM

\* C7: no vector returned by an embedding provider is all zero.
C7_NoZeroVector ==
    \A i \in 1..Len(emb_out.vectors) : ~IsZeroVec(emb_out.vectors[i])

---------------------------------------------------------------------------
(* Claims about VectorDatabase and its backends *)

\* C8: on the FAISS backend every vector inserted into the index and every query
\* vector passed to the index has unit L2 norm, also when the embedding was the
\* zero vector produced after an embedding failure.
C8_UnitNorm ==
    db_type = "faiss" =>
        /\ \A i \in 1..Len(faiss_index) : IsUnitVec(faiss_index[i])
        /\ \A i \in 1..Len(vdb_out.qvec) : IsUnitVec(vdb_out.qvec[i])

\* What the backend holds of a chunk
Stored(c) ==
    IF db_type \in ChromaTypes
    THEN \E i \in 1..Len(collection) :
            collection[i].id = c.id /\ collection[i].document = c.content
    ELSE \E i \in 1..Len(documents) : documents[i] = c

\* C9: add_documents_from_scraped_data returns normally also when the store's
\* add fails for a chunk, and every chunk outside the failing part is stored.
C9_NoAbort ==
    vdb_out.op = "add" =>
        /\ ~vdb_out.raised
        /\ \A i \in 1..Len(vdb_out.chunks) :
              i \notin vdb_out.bad => Stored(vdb_out.chunks[i])

\* C10: for each accepted db_type search_similar returns exactly the list the
\* constructed backend's search returns for the query.
C10_SearchDelegates ==
    vdb_out.op = "search" =>
        vdb_out.results =
            BackendSearch(vdb_out.query, vdb_out.k, vdb_out.enc_fails,
                          vdb_out.query_fails).results

---------------------------------------------------------------------------
(* Claims about generate_response *)

\* C11: a generate_response call that returns error = True leaves
\* conversation_history as it was before the call.
C11_ErrorLeavesHistory ==
    (chat_out.op = "generate" /\ chat_out.error) =>
        conversation_history = chat_out.before

\* C12: conversation_history has at most 20 turns and is the most recent
\* min(20, 2*s) turns of all the turns appended, s being the number of successful
\* calls since the last clear.
C12_HistoryCap ==
    /\ Len(conversation_history) <= HISTORY_CAP
    /\ conversation_history =
           PySlice(full_turns, Len(full_turns) - Min(HISTORY_CAP, 2 * successes),
                   Len(full_turns))

\* C14: a successful generate_response appends (user, question) then
\* (assistant, answer), so that the history is the capped history before the call
\* plus these two turns and every user turn is directly followed by its own
\* answer; sources_used is the number of search results passed in.
C14_SuccessAppends ==
    /\ (chat_out.op = "generate" /\ ~chat_out.error) =>
          /\ conversation_history =
                 CapHistory(chat_out.before \o
                            <<Turn("user", chat_out.question),
                              Turn("assistant", chat_out.answer)>>)
          /\ chat_out.sources_used = chat_out.results
    /\ \A i \in 1..Len(conversation_history) :
          conversation_history[i].role = "user" =>
              /\ i < Len(conversation_history)
              /\ conversation_history[i + 1] =
                     Turn("assistant", AnswerTo(conversation_history[i].content))

\* C14 witness: a successful call with search results on a full history, the cap
\* dropping the oldest exchange.
C14_Witness ==
    /\ chat_out.op = "generate" /\ ~chat_out.error
    /\ chat_out.results > 0
    /\ Len(chat_out.before) = HISTORY_CAP
    /\ Len(conversation_history) = HISTORY_CAP
    /\ conversation_history[1] # chat_out.before[1]

\* a ends with b
EndsWith(a, b) == Len(a) >= Len(b) /\ SubSeq(a, Len(a) - Len(b) + 1, Len(a)) = b

\* C13: for a context over the budget the string trim_context returns, marker
\* included, counts at most max_tokens tokens and ends with the truncation
\* marker; a context within the budget is returned unchanged.
C13_TrimWithinBudget ==
    trim_out # <<>> =>
        IF CountTokens(context) > 10 * max_tokens
        THEN /\ CountTokens(trim_out[1]) <= 10 * max_tokens
             /\ EndsWith(trim_out[1], Marker)
        ELSE trim_out[1] = context

---------------------------------------------------------------------------
(* Claims about the persistence of FAISSVectorDB *)

\* r is the result made from chunk c
ResultOf(r, c) == r.content = c.content /\ r.metadata = Metadata(c)

\* C15: a new FAISSVectorDB constructed right after an add_documents whose save
\* succeeded holds the index and the metadata list of the instance that saved,
\* in the same order, and every result of a search is made from one of its
\* chunks.
C15_RoundTrip ==
    /\ (vdb_out.op = "faiss.init" /\ vdb_out.after_save) =>
          /\ faiss_index = vdb_out.old_index
          /\ documents = vdb_out.old_documents
    /\ vdb_out.op = "faiss.search" =>
          \A i \in 1..Len(vdb_out.results) :
              \E j \in 1..Len(documents) : ResultOf(vdb_out.results[i], documents[j])

\* C15 witness: a new instance after a successful save of several chunks, and a
\* search on a reloaded index that returned results.
C15_WitnessReload ==
    /\ vdb_out.op = "faiss.init" /\ vdb_out.after_save
    /\ Len(documents) >= 2
    /\ index_file = WriteFile(faiss_index)

\* C16: a FAISSVectorDB constructed while one of the two files is missing,
\* unreadable or corrupt ends with an empty index and an empty metadata list.
C16_StartupDegrades ==
    (vdb_out.op = "faiss.init"
       /\ (index_file.state # "ok" \/ metadata_file.state # "ok")) =>
        faiss_index = <<>> /\ documents = <<>>

---------------------------------------------------------------------------
(* Claims about the search results *)

\* s < t for two scores
ScoreLess(s, t) ==
    IF s.num < 0 \/ t.num < 0 THEN s.num < t.num ELSE Higher(t, s)

\* d < e for two `distance` values of one backend: a cosine distance is one
\* minus the cosine, an inner product is the score itself
DistanceLess(d, e) ==
    IF d.kind = "cosine distance" THEN ScoreLess(e.of, d.of) ELSE ScoreLess(d.of, e.of)

\* C18: in every list a backend's search returns the `distance` values are
\* non-decreasing (lower = more similar, best first).
C18_DistanceAscending ==
    vdb_out.op \in {"faiss.search", "chroma.search", "robust.search"} =>
        \A i \in 1..(Len(vdb_out.results) - 1) :
            ~DistanceLess(vdb_out.results[i + 1].distance, vdb_out.results[i].distance)

\* C17: ChromaVectorDB.search and RobustChromaVectorDB.search do not raise; they
\* return the empty list when the collection is empty or the query fails, and
\* otherwise one result per document the backend returned, at most n_results,
\* in the backend's order.
C17_ChromaSearchTotal ==
    vdb_out.op \in {"chroma.search", "robust.search"} =>
        /\ ~vdb_out.raised
        /\ IF collection = <<>> \/ vdb_out.query_fails
           THEN vdb_out.results = <<>>
           ELSE LET raw == CollectionQuery(collection, vdb_out.query, vdb_out.k)
                IN  /\ Len(vdb_out.results) = Len(raw.documents)
                    /\ Len(vdb_out.results) <= vdb_out.k
                    /\ \A i \in 1..Len(raw.documents) :
                          /\ vdb_out.results[i].content = raw.documents[i]
                          /\ vdb_out.results[i].metadata = raw.metadatas[i]
                          /\ vdb_out.results[i].distance = raw.distances[i]

\* C17 witness: a search on a collection of several documents that returned
\* n_results of them, fewer than the collection holds.
C17_Witness ==
    /\ vdb_out.op \in {"chroma.search", "robust.search"}
    /\ ~vdb_out.query_fails
    /\ Len(vdb_out.results) = vdb_out.k
    /\ Len(collection) > vdb_out.k
    /\ vdb_out.results[1].content # collection[1].document

\* C19: with chunk_size >= 1 and 0 <= chunk_overlap < chunk_size the window start
\* strictly increases at each iteration of the loop of chunk_text, whatever
\* separators the text contains, so that the loop terminates.
C19_StartIncreases ==
    (ValidOverlap /\ pc # "raised") =>
        \A i \in 1..Len(windows) :
            windows[i][1] < (IF i < Len(windows) THEN windows[i + 1][1] ELSE start)

\* The characters the boundary policy names, and the cut it prescribes for the
\* window w = <<start, end>>: the largest index above start + 0.8 chunk_size and
\* at most start + chunk_size that holds one of them, else start + chunk_size.
PolicyMarks == {" ", "\n", "\t", ".", "!", "?", ";"}
PolicyCut(w) ==
    LET marks == {e \in (w[1] + 1)..(w[1] + chunk_size) :
                     /\ 5 * e > 5 * w[1] + 4 * chunk_size
                     /\ PyIndexOk(text, e)
                     /\ PyIndex(text, e) \in PolicyMarks}
    IN  IF marks = {} THEN w[1] + chunk_size
        ELSE CHOOSE e \in marks : \A f \in marks : f <= e
NonFinal(w) == w[1] + chunk_size < Len(text)

\* C20: every non-final window (start + chunk_size < len(text)) ends at the
\* largest index e with start + 0.8 chunk_size < e <= start + chunk_size where
\* text[e] is a blank, newline, tab, '.', '!', '?' or ';', and at
\* start + chunk_size if there is none; so it is longer than 0.8 chunk_size and
\* at most chunk_size long.
C20_BoundaryPolicy ==
    \A i \in 1..Len(windows) :
        NonFinal(windows[i]) =>
            /\ windows[i][2] = PolicyCut(windows[i])
            /\ 5 * (windows[i][2] - windows[i][1]) > 4 * chunk_size
            /\ windows[i][2] - windows[i][1] <= chunk_size

\* C20 witness: a finished call with a non-final window cut back to a full stop
\* and a non-final window cut at start + chunk_size although it holds a
\* separator below the 0.8 chunk_size floor.
C20_Witness ==
    /\ Returned
    /\ \E i \in 1..Len(windows) :
          /\ NonFinal(windows[i])
          /\ windows[i][2] < windows[i][1] + chunk_size
          /\ PyIndex(text, windows[i][2]) = "."
    /\ \E i \in 1..Len(windows) :
          /\ NonFinal(windows[i])
          /\ windows[i][1] >= 0
          /\ windows[i][2] = windows[i][1] + chunk_size
          /\ \E e \in (windows[i][1] + 1)..(windows[i][2] - 1) :
                PyIndex(text, e) \in PolicyMarks

---------------------------------------------------------------------------
(* Claims about FAISSVectorDB.add_documents *)

\* The index and the metadata list in lock-step: as many vectors as chunks, the
\* vector at position i being the normalised embedding of the chunk at i
LockStep(index, docs) ==
    /\ Len(index) = Len(docs)
    /\ \A i \in 1..Len(docs) :
          HasEmbedding(docs[i]) /\ index[i] = DivideByNorm(docs[i].embedding)

\* C21: after every FAISSVectorDB.add_documents call made on an instance whose
\* index and metadata list were in lock-step, they are in lock-step again, in
\* memory and in the file pair when both files are readable, whether a chunk
\* had no embedding, index.add raised or a save failed; a chunk without
\* embedding is in neither.
C21_LockStep ==
    (vdb_out.op = "faiss.add" /\ LockStep(vdb_out.old_index, vdb_out.old_documents)) =>
        /\ LockStep(faiss_index, documents)
        /\ (index_file.state = "ok" /\ metadata_file.state = "ok") =>
              LockStep(index_file.data, metadata_file.data)

---------------------------------------------------------------------------
(* Claims about RobustChromaVectorDB.add_documents *)

\* C22: RobustChromaVectorDB.add_documents does not raise; when the whole-batch
\* add fails the n documents are attempted in consecutive sub-batches of size
\* max(1, n div 10), in order, each once, with the slices of ids, documents and
\* metadatas of the same positions, every document in exactly one sub-batch,
\* and a failed sub-batch does not stop the later ones; when the whole-batch
\* add succeeds there is no other attempt.
C22_SubBatches ==
    (vdb_out.op = "robust.add" /\ vdb_out.lists # <<>>) =>
        LET l    == vdb_out.lists[1]
            n    == Len(l.documents)
            size == IF n \div 10 >= 1 THEN n \div 10 ELSE 1
            att  == vdb_out.attempts
        IN  /\ ~vdb_out.raised
            /\ ~vdb_out.whole_raised => att = <<>>
            /\ vdb_out.whole_raised =>
                  /\ Len(att) = (n + size - 1) \div size
                  /\ \A j \in 1..Len(att) :
                        /\ att[j].from = (j - 1) * size
                        /\ att[j].documents = PySlice(l.documents, att[j].from,
                                                       att[j].from + size)
                        /\ att[j].ids = PySlice(l.ids, att[j].from, att[j].from + size)
                        /\ att[j].metadatas = PySlice(l.metadatas, att[j].from,
                                                       att[j].from + size)
                  /\ \A i \in 1..n :
                        Cardinality({j \in 1..Len(att) :
                                        att[j].from < i
                                        /\ i <= att[j].from + Len(att[j].documents)}) = 1

\* C22 witness: a failed whole-batch add of more than twenty documents, split
\* into sub-batches of two with a last one of one, where a sub-batch failed and
\* the next one was added.
C22_Witness ==
    /\ vdb_out.op = "robust.add"
    /\ vdb_out.whole_raised
    /\ Len(vdb_out.attempts) >= 3
    /\ Len(vdb_out.attempts[1].documents) = 2
    /\ Len(vdb_out.attempts[Len(vdb_out.attempts)].documents) = 1
    /\ \E j \in 1..(Len(vdb_out.attempts) - 1) :
          vdb_out.attempts[j].raised /\ ~vdb_out.attempts[j + 1].raised
    /\ Len(collection) > Len(vdb_out.old_index)

---------------------------------------------------------------------------
(* Claims about the lifetime of one RobustEmbeddingFunction *)

\* C23: the vectors one RobustEmbeddingFunction returns all have the same
\* dimension: those of one call, and those of a call and of the call that
\* follows it, also when a call fell back to hash vectors or the TF-IDF
\* provider was fitted on a small vocabulary.
C23_SameDimension ==
    [][(emb_out.op \in {"call", "query"} /\ emb_out'.op \in {"call", "query"}) =>
          \A i \in 1..Len(emb_out.vectors), j \in 1..Len(emb_out'.vectors) :
              /\ Dim(emb_out.vectors[i]) = Dim(emb_out'.vectors[j])
              /\ Dim(emb_out'.vectors[1]) = Dim(emb_out'.vectors[j])]_vars

\* The fixed order of the providers, and whether the initialisation of each
\* succeeds in the environment
ProviderOrder == <<"sentence-transformers", "chromadb-default", "tfidf", "none">>
Initialises(p) ==
    CASE p = "sentence-transformers" -> avail.st_import /\ avail.st_load
      [] p = "chromadb-default" -> avail.chroma_default
      [] p = "tfidf" -> avail.sklearn = "ok"
      [] OTHER -> TRUE

\* C24: constructing a RobustEmbeddingFunction does not raise, and at every
\* moment after it model_type is the first provider of the order
\* sentence-transformers, chromadb-default, tfidf, 'none' whose initialisation
\* succeeds: never a later one while an earlier one initialised, and never
\* another one after a call.
C24_ProviderSelection ==
    emb_out.op \in {"init", "call", "query"} =>
        /\ ~(emb_out.op = "init" /\ emb_out.raised)
        /\ \E i \in 1..Len(ProviderOrder) :
              /\ model_type = ProviderOrder[i]
              /\ Initialises(ProviderOrder[i])
              /\ \A j \in 1..(i - 1) : ~Initialises(ProviderOrder[j])

\* The terms of a vocabulary
TermsIn(vocab) == {vocab[j] : j \in 1..Len(vocab)}

\* C25: with the TF-IDF provider the vocabulary is the one fitted on the input
\* of the first call whose fit succeeds; once fitted, no call changes it, and
\* the vectors of a call have one component per term of that vocabulary, a
\* component being non-zero exactly when its term occurs in the text: terms
\* unseen at fit time weigh nothing.
C25_FitOnce ==
    [][(model_type = "tfidf" /\ emb_out'.op \in {"call", "query"}
          /\ emb_out'.input # <<>>) =>
          /\ fitted => (fitted' /\ vocabulary' = vocabulary)
          /\ (~fitted /\ fitted') =>
                TermsIn(vocabulary') =
                    UNION {TermsOf(emb_out'.input[i]) : i \in 1..Len(emb_out'.input)}
          /\ (~fitted /\ ~fitted') => emb_out'.threw
          /\ fitted' =>
                /\ ~emb_out'.threw
                /\ Len(emb_out'.vectors) = Len(emb_out'.input)
                /\ \A i \in 1..Len(emb_out'.input) :
                      /\ Dim(emb_out'.vectors[i]) = Len(vocabulary')
                      /\ \A j \in 1..Len(vocabulary') :
                            (Component(emb_out'.vectors[i], j) # 0)
                              <=> (vocabulary'[j] \in TermsOf(emb_out'.input[i]))]_vars

\* C25 witness: a call on the fitted TF-IDF provider with a text that has a term
\* of the vocabulary and a term unseen at fit time.
C25_Witness ==
    /\ model_type = "tfidf"
    /\ fitted
    /\ emb_out.op = "call"
    /\ \E i \in 1..Len(emb_out.input) :
          /\ TermsOf(emb_out.input[i]) \cap TermsIn(vocabulary) # {}
          /\ ~(TermsOf(emb_out.input[i]) \subseteq TermsIn(vocabulary))

---------------------------------------------------------------------------
(* Claims about FAISSVectorDB.search *)

\* C26: FAISSVectorDB.search returns the empty list when the index is empty,
\* and otherwise exactly min(n_results, index size) results, the r-th carrying
\* the content and the metadata of the chunk stored at the index position the
\* r-th match has.
C26_FaissSearchResults ==
    vdb_out.op = "faiss.search" =>
        /\ ~vdb_out.raised
        /\ IF faiss_index = <<>> THEN vdb_out.results = <<>>
           ELSE LET n    == Min(vdb_out.k, Len(faiss_index))
                    hits == IndexSearch(faiss_index, vdb_out.qvec[1], n)
                IN  /\ Len(vdb_out.results) = n
                    /\ \A r \in 1..n :
                          /\ hits[r].idx \in 0..(Len(faiss_index) - 1)
                          /\ hits[r].idx < Len(documents)
                          /\ ResultOf(vdb_out.results[r], documents[hits[r].idx + 1])

---------------------------------------------------------------------------
(* Claims about format_conversation_history *)

\* What the last RECENT_TURNS turns of h are expected to render as, oldest
\* first: the role's prefix and the content of each
ExpectedEntries(h) ==
    LET first == IF Len(h) > RECENT_TURNS THEN Len(h) - RECENT_TURNS + 1 ELSE 1
    IN  [i \in 1..(Len(h) - first + 1) |->
            <<IF h[first + i - 1].role = "user" THEN "Utilisateur: "
              ELSE "Assistant: ">> \o h[first + i - 1].content]

\* C27 as claimed: the rendering has one line per turn of the last six, oldest
\* first, each line being the turn's role prefix and content; an empty history
\* renders as the placeholder; the history keeps all its turns.
C27_AsClaimed ==
    chat_out.op = "format" =>
        /\ conversation_history = chat_out.before
        /\ IF conversation_history = <<>> THEN chat_out.rendered = Placeholder
           ELSE SplitLines(chat_out.rendered) = ExpectedEntries(conversation_history)

\* C27: format_conversation_history renders only the last six turns, oldest
\* first, one entry per turn made of the role prefix and the content, the
\* entries joined by line feeds; an empty history renders as the placeholder;
\* the history keeps all its turns.
C27_RendersRecent ==
    chat_out.op = "format" =>
        /\ conversation_history = chat_out.before
        /\ IF conversation_history = <<>> THEN chat_out.rendered = Placeholder
           ELSE chat_out.rendered = JoinLines(ExpectedEntries(conversation_history))

\* C27 witness: a history of more than six turns rendered, its rendering
\* starting with a user turn that is not the oldest one in memory.
C27_Witness ==
    /\ chat_out.op = "format"
    /\ Len(conversation_history) > RECENT_TURNS
    /\ conversation_history[1].content
          # conversation_history[Len(conversation_history) - RECENT_TURNS + 1].content
    /\ chat_out.rendered[1] = "Utilisateur: "

---------------------------------------------------------------------------
(* Claims about threads *)

\* A step of the thread in search
SearchStep == searcher.pc # "idle" /\ searcher' # searcher

\* C28: on one FAISSVectorDB used by two threads no step of search executes
\* between the first and the last mutation of an add_documents call (metadata
\* append, index insertion, save): add and search exclude each other.
C28_AddSearchExclusion ==
    [][AdderMidway => ~SearchStep]_vars

\* C29: two concurrent /api/chat requests on the shared ChatBot keep the
\* history well-formed: once the requests are served every user turn is
\* directly followed by the assistant answer to that question, and no turn
\* that was appended is lost by the cap of the other request: the history is
\* the last HISTORY_CAP turns appended.
C29_ConcurrentHistory ==
    (\A r \in 1..Len(requests) : requests[r].pc \in {"idle", "done"}) =>
        /\ \A i \in 1..Len(conversation_history) :
              conversation_history[i].role = "user" =>
                  /\ i < Len(conversation_history)
                  /\ conversation_history[i + 1].role = "assistant"
                  /\ conversation_history[i + 1].content =
                         AnswerTo(conversation_history[i].content)
        /\ conversation_history =
              PySlice(full_turns, Max(0, Len(full_turns) - HISTORY_CAP),
                      Len(full_turns))

\* C30: every call scrape_website(start_url, max_pages), on a fresh or on a
\* reused scraper, returns a list of at most max_pages pages, whatever the
\* links of the site.
C30_AtMostMaxPages ==
    scrape_out.op = "scrape" =>
        Len(scrape_out.returned) <= scrape_out.max_pages

====
